---- MODULE Spec2Model ----
(***************************************************************************)
(* Batch preparation of sentence graphs for the graph attention model.     *)
(*                                                                         *)
(* A graph (SentGraph / Graph) is the record                               *)
(*   [lsedge, lsedge_type, lsimp_node, nodeid2wordid]                      *)
(* Python lists are sequences; an edge (n1, n2) is the pair <<n1, n2>>;    *)
(* node numbers are 0-based as in the code.                                *)
(*                                                                         *)
(* Two generations of the batching code live in the repository:            *)
(*   src/Gat/neural/models.py  GATModel._coalesce_graph,                   *)
(*                             GATForSeqClsf.connect_to_cls_node (behind   *)
(*                             an lru_cache), GATForSeqClsf.prepare_batch  *)
(*   src/models.py             GATModel.prepare_batch (uses                *)
(*                             utils.sorted_directed),                     *)
(*                             GATForSeqClsf.prepare_batch_for_seq_clsf    *)
(* and src/data.py has SentenceGraphDataset.to_undirected.                 *)
(***************************************************************************)
EXTENDS Integers, Sequences, FiniteSets, TLC

VARIABLES
    batch,        \* the list of graphs handed to the model (one per example)
    undirected,   \* GATModel.undirected (config.undirected)
    memo,         \* contents of the lru_cache of connect_to_cls_node
    out,          \* what the last call returned (or the exception it raised)
    pool,         \* the Cacheable objects a run constructs, with their cache_dir
    fs,           \* the file system under the cache directories
    log,          \* one entry per finished Cacheable.__init__, oldest first
    wk,           \* two processes inside Cacheable.__init__ at the same time
    heap,         \* the lists of the graphs as objects, and the last call on them
    att,          \* the inputs and outputs of the attention layer
    enc,          \* the encoder as built and the trace of its forward pass
    voc,          \* the text source, the vocabulary built from it and its cache
    cfg           \* the configuration objects and the last assignment on them

vars == <<batch, undirected, memo, out, pool, fs, log, wk, heap, att, enc, voc, cfg>>

\* the variables of the layers, the vocabulary and the configuration
restvars == <<att, enc, voc, cfg>>

\* the variables of the caching code (src/data.py: Cacheable)
cachevars == <<pool, fs, log, wk>>

\* the variables of the batching code
graphvars == <<batch, undirected, memo, out>>

----------------------------------------------------------------------------
(* Configuration and input domain *)

\* config.cls_id: the vocabulary id of the [CLS] token
cls_id == 9

\* config.nedge_type: edge types of the data are 0..nedge_type-1
nedge_type == 2

\* GATModel.head_to_cls_edge_type = config.nedge_type
head_to_cls_edge_type == nedge_type

\* Bound on the size of a generated batch: its nodes + edges + key nodes
\* beyond the first of each graph + nodes that carry cls_id.
MaxSize == 4

\* Vocabulary ids a generated node may carry: one ordinary id and cls_id
WordIds == {cls_id - 1, cls_id}

\* nodeid2wordid is Optional[List[int]]: None is modelled by a sequence that
\* is no list of vocabulary ids (vocabulary ids are >= 0).
None == <<-1>>

Nodes(n) == 0 .. (n - 1)

IsInjective(s) == \A i, j \in 1..Len(s) : s[i] = s[j] => i = j

GraphSize(g) ==
    Len(g.nodeid2wordid) + Len(g.lsedge) + (Len(g.lsimp_node) - 1)
    + Cardinality({i \in 1..Len(g.nodeid2wordid) : g.nodeid2wordid[i] = cls_id})

\* The graphs of size <= s: at least one node, endpoints and key nodes are
\* nodes of the graph, key nodes are distinct and at least one, edges and
\* edge types have equal length, every node has a vocabulary id.
GraphsUpTo(s) ==
    UNION { UNION { UNION {
        { g \in
            { [lsedge |-> e, lsedge_type |-> t, lsimp_node |-> k, nodeid2wordid |-> w] :
                e \in [1..ne -> Nodes(n) \X Nodes(n)],
                t \in [1..ne -> 0..(nedge_type - 1)],
                k \in {x \in [1..nk -> Nodes(n)] : IsInjective(x)},
                w \in [1..n -> WordIds] } : GraphSize(g) <= s }
        : ne \in 0..(s - n - (nk - 1)) }
        : nk \in 1..(IF n < s - n + 1 THEN n ELSE s - n + 1) }
        : n \in 1..s }

RECURSIVE BatchesUpTo(_)
BatchesUpTo(s) ==
    {<<>>} \cup
    UNION { { <<g>> \o b : b \in BatchesUpTo(s - GraphSize(g)) } : g \in GraphsUpTo(s) }

\* The two examples of the end-to-end scenario
ScenarioG1 ==
    [lsedge |-> <<<<0, 1>>>>, lsedge_type |-> <<0>>, lsimp_node |-> <<1>>,
     nodeid2wordid |-> <<5, 6>>]
ScenarioG2 ==
    [lsedge |-> <<<<0, 1>>>>, lsedge_type |-> <<1>>, lsimp_node |-> <<1>>,
     nodeid2wordid |-> <<7, 8>>]
ScenarioBatch == <<ScenarioG1, ScenarioG2>>

Batches == BatchesUpTo(MaxSize) \cup {ScenarioBatch}

----------------------------------------------------------------------------
(* Results *)

\* Placeholder for the graph fields of a result that carries no graph
NoGraph ==
    [lsedge |-> <<>>, lsedge_type |-> <<>>, lsimp_node |-> <<>>, nodeid2wordid |-> <<>>]

\* Fields: op, the call; status, "ok" or the exception raised; at, the
\* assertion that failed; arg, the graph a single-graph call was given; graph,
\* the graph it returned; hit, whether the lru_cache answered; the rest, the
\* lists a batch call returned, with the mask (adj) and the CLS nodes
\* (cls_node) of GATForSeqClsf.prepare_batch.
NoResult ==
    [op |-> "none", status |-> "none", at |-> "", arg |-> NoGraph, graph |-> NoGraph,
     hit |-> FALSE,
     lsedge |-> <<>>, lsedge_type |-> <<>>, lslsimp_node |-> <<>>,
     nodeid2wordid |-> <<>>, lsposition_id |-> <<>>, adj |-> <<>>, cls_node |-> <<>>]

Raised(op, exc, at) == [NoResult EXCEPT !.op = op, !.status = exc, !.at = at]

----------------------------------------------------------------------------
(* src/Gat/neural/models.py: GATModel._coalesce_graph *)

\* Mutant: the edges are appended without the node counter added
ShiftEdges_NoCounter(one_lsedge, counter) ==
    [i \in 1..Len(one_lsedge) |-> <<one_lsedge[i][1], one_lsedge[i][2]>>]

\* Mutant: the counter is added to the source of an edge only
ShiftEdges_SourceOnly(one_lsedge, counter) ==
    [i \in 1..Len(one_lsedge) |-> <<one_lsedge[i][1] + counter, one_lsedge[i][2]>>]

\* [(edge[0] + counter, edge[1] + counter) for edge in one_lsedge]
ShiftEdges(one_lsedge, counter) ==
    [i \in 1..Len(one_lsedge) |-> <<one_lsedge[i][1] + counter, one_lsedge[i][2] + counter>>]

\* Mutant: the key nodes keep their numbers local to the graph
ShiftNodes_NoCounter(one_lsimp_node, counter) ==
    [i \in 1..Len(one_lsimp_node) |-> one_lsimp_node[i]]

\* [node + counter for node in one_lsimp_node]
ShiftNodes(one_lsimp_node, counter) ==
    [i \in 1..Len(one_lsimp_node) |-> one_lsimp_node[i] + counter]

\* list(range(n))
Range(n) == [i \in 1..n |-> i - 1]

\* The accumulators before the loop
CoalesceStart ==
    [lsedge |-> <<>>, lsedge_type |-> <<>>, lslsimp_node |-> <<>>,
     nodeid2wordid |-> <<>>, lsposition_id |-> <<>>, counter |-> 0]

\* Mutant: the node counter is never advanced
CoalesceStep_CounterStuck(acc, g) ==
    [lsedge        |-> acc.lsedge \o ShiftEdges(g.lsedge, acc.counter),
     lsedge_type   |-> acc.lsedge_type \o g.lsedge_type,
     lslsimp_node  |-> Append(acc.lslsimp_node, ShiftNodes(g.lsimp_node, acc.counter)),
     nodeid2wordid |-> acc.nodeid2wordid \o g.nodeid2wordid,
     lsposition_id |-> acc.lsposition_id \o Range(Len(g.nodeid2wordid)),
     counter       |-> acc.counter]

\* One iteration of the loop over the batch
CoalesceStep(acc, g) ==
    [lsedge        |-> acc.lsedge \o ShiftEdges(g.lsedge, acc.counter),
     lsedge_type   |-> acc.lsedge_type \o g.lsedge_type,
     lslsimp_node  |-> Append(acc.lslsimp_node, ShiftNodes(g.lsimp_node, acc.counter)),
     nodeid2wordid |-> acc.nodeid2wordid \o g.nodeid2wordid,
     lsposition_id |-> acc.lsposition_id \o Range(Len(g.nodeid2wordid)),
     counter       |-> acc.counter + Len(g.nodeid2wordid)]

RECURSIVE CoalesceLoop(_, _, _)
CoalesceLoop(ls, i, acc) ==
    IF i > Len(ls) THEN acc ELSE CoalesceLoop(ls, i + 1, CoalesceStep(acc, ls[i]))

\* zip(a, b) stops at the shorter list
MinLen(a, b) == IF Len(a) < Len(b) THEN Len(a) ELSE Len(b)

\* The loop of the undirected branch: st = [setedge, new_lsedge, new_lsedge_type]
UndirectedStep(st, edge, edge_type) ==
    LET n1 == IF edge[1] > edge[2] THEN edge[2] ELSE edge[1]
        n2 == IF edge[1] > edge[2] THEN edge[1] ELSE edge[2]
    IN  IF <<n1, n2>> \notin st.setedge
        THEN [setedge         |-> st.setedge \cup {<<n1, n2>>},
              new_lsedge      |-> st.new_lsedge \o <<<<n1, n2>>, <<n2, n1>>>>,
              new_lsedge_type |-> st.new_lsedge_type \o <<edge_type, edge_type>>]
        ELSE st

RECURSIVE UndirectedLoop(_, _, _, _)
UndirectedLoop(lsedge, lsedge_type, i, st) ==
    IF i > MinLen(lsedge, lsedge_type) THEN st
    ELSE UndirectedLoop(lsedge, lsedge_type, i + 1,
                        UndirectedStep(st, lsedge[i], lsedge_type[i]))

MakeUndirected(lsedge, lsedge_type) ==
    UndirectedLoop(lsedge, lsedge_type, 1,
                   [setedge |-> {}, new_lsedge |-> <<>>, new_lsedge_type |-> <<>>])

\* _coalesce_graph(batch) with self.undirected = undir
_coalesce_graph(ls, undir) ==
    LET acc == CoalesceLoop(ls, 1, CoalesceStart)
        und == MakeUndirected(acc.lsedge, acc.lsedge_type)
    IN  [lsedge        |-> IF undir THEN und.new_lsedge ELSE acc.lsedge,
         lsedge_type   |-> IF undir THEN und.new_lsedge_type ELSE acc.lsedge_type,
         lslsimp_node  |-> acc.lslsimp_node,
         nodeid2wordid |-> acc.nodeid2wordid,
         lsposition_id |-> acc.lsposition_id]

Returned(op, r) ==
    [NoResult EXCEPT !.op = op, !.status = "ok",
                     !.lsedge = r.lsedge, !.lsedge_type = r.lsedge_type,
                     !.lslsimp_node = r.lslsimp_node,
                     !.nodeid2wordid = r.nodeid2wordid,
                     !.lsposition_id = r.lsposition_id]

\* A call of GATModel._coalesce_graph on the batch as it is
CoalesceGraph ==
    /\ out' = Returned("_coalesce_graph", _coalesce_graph(batch, undirected))
    /\ UNCHANGED <<batch, undirected, memo>>
    /\ UNCHANGED cachevars
    /\ UNCHANGED heap
    /\ UNCHANGED restvars

----------------------------------------------------------------------------
(* src/Gat/utils.py: sorted_directed, and src/models.py: GATModel.prepare_batch *)

\* dict_edge[k] = v on a dict kept as its list of items in insertion order:
\* an existing key keeps its place and takes the new value.
DictSet(d, k, v) ==
    IF \E i \in 1..Len(d) : d[i][1] = k
    THEN [i \in 1..Len(d) |-> IF d[i][1] = k THEN <<k, v>> ELSE d[i]]
    ELSE Append(d, <<k, v>>)

RECURSIVE SortedDirectedLoop(_, _, _)
SortedDirectedLoop(lsedge, i, dict_edge) ==
    IF i > Len(lsedge) THEN dict_edge
    ELSE LET node1 == IF lsedge[i][1] > lsedge[i][2] THEN lsedge[i][2] ELSE lsedge[i][1]
             node2 == IF lsedge[i][1] > lsedge[i][2] THEN lsedge[i][1] ELSE lsedge[i][2]
         IN  SortedDirectedLoop(lsedge, i + 1, DictSet(dict_edge, node1, node2))

\* list(dict_edge.items())
sorted_directed(lsedge) == SortedDirectedLoop(lsedge, 1, <<>>)

\* [(n2, n1) for n1, n2 in lsedge]
Inverted(lsedge) == [i \in 1..Len(lsedge) |-> <<lsedge[i][2], lsedge[i][1]>>]

OldCoalesceStart ==
    [lsedge |-> <<>>, lsedge_type |-> <<>>, lslsimp_node |-> <<>>,
     nodeid2wordid |-> <<>>, counter |-> 0]

OldCoalesceStep(acc, g) ==
    [lsedge        |-> acc.lsedge \o ShiftEdges(g.lsedge, acc.counter),
     lsedge_type   |-> acc.lsedge_type \o g.lsedge_type,
     lslsimp_node  |-> Append(acc.lslsimp_node, ShiftNodes(g.lsimp_node, acc.counter)),
     nodeid2wordid |-> acc.nodeid2wordid \o g.nodeid2wordid,
     counter       |-> acc.counter + Len(g.nodeid2wordid)]

RECURSIVE OldCoalesceLoop(_, _, _)
OldCoalesceLoop(ls, i, acc) ==
    IF i > Len(ls) THEN acc ELSE OldCoalesceLoop(ls, i + 1, OldCoalesceStep(acc, ls[i]))

\* GATModel.prepare_batch(batch) of src/models.py with self.undirected = undir;
\* it returns no position ids.
prepare_batch_old(ls, undir) ==
    LET acc       == OldCoalesceLoop(ls, 1, OldCoalesceStart)
        lsedge    == sorted_directed(acc.lsedge)
        lsedge_inv == Inverted(lsedge)
        lsedge_type_inv == acc.lsedge_type
    IN  [lsedge        |-> IF undir THEN lsedge \o lsedge_inv ELSE acc.lsedge,
         lsedge_type   |-> IF undir THEN acc.lsedge_type \o lsedge_type_inv
                                    ELSE acc.lsedge_type,
         lslsimp_node  |-> acc.lslsimp_node,
         nodeid2wordid |-> acc.nodeid2wordid,
         lsposition_id |-> <<>>]

\* A call of GATModel.prepare_batch (src/models.py) on the batch as it is
OldPrepareBatch ==
    /\ out' = Returned("prepare_batch_old", prepare_batch_old(batch, undirected))
    /\ UNCHANGED <<batch, undirected, memo>>
    /\ UNCHANGED cachevars
    /\ UNCHANGED heap
    /\ UNCHANGED restvars

----------------------------------------------------------------------------
(* src/data.py: SentenceGraphDataset.to_undirected *)

\* tuple(sorted(e))
SortedEdge(e) == IF e[1] > e[2] THEN <<e[2], e[1]>> ELSE e

\* (a, b) < (c, d) as Python orders tuples
EdgeLess(a, b) == a[1] < b[1] \/ (a[1] = b[1] /\ a[2] < b[2])

\* sorted(S) for a set of edges
RECURSIVE SortedEdges(_)
SortedEdges(S) ==
    IF S = {} THEN <<>>
    ELSE LET m == CHOOSE x \in S : \A y \in S : y = x \/ EdgeLess(x, y)
         IN  <<m>> \o SortedEdges(S \ {m})

to_undirected(lsedge_index) ==
    LET directed_edge_index ==
            SortedEdges({SortedEdge(lsedge_index[i]) : i \in 1..Len(lsedge_index)})
    IN  directed_edge_index \o Inverted(directed_edge_index)

\* A call of SentenceGraphDataset.to_undirected on the edge list of one graph
ToUndirected ==
    /\ \E i \in 1..Len(batch) :
          out' = [NoResult EXCEPT !.op = "to_undirected", !.status = "ok",
                                  !.arg = batch[i],
                                  !.lsedge = to_undirected(batch[i].lsedge)]
    /\ UNCHANGED <<batch, undirected, memo>>
    /\ UNCHANGED cachevars
    /\ UNCHANGED heap
    /\ UNCHANGED restvars

----------------------------------------------------------------------------
(* src/Gat/neural/models.py: GATForSeqClsf.connect_to_cls_node *)

\* x in ls
Contains(ls, x) == \E i \in 1..Len(ls) : ls[i] = x

\* Mutant: the check that cls_id is unused is missing
ClsIdUnused_NoCheck(nodeid2wordid) == TRUE

\* assert self.cls_id not in nodeid2wordid
ClsIdUnused(nodeid2wordid) == ~Contains(nodeid2wordid, cls_id)

\* Mutant: the id appended is the edge type of the new edges, not cls_id
NewNodeid2wordid_EdgeType(nodeid2wordid) == Append(nodeid2wordid, head_to_cls_edge_type)

\* new_nodeid2wordid = nodeid2wordid + [self.cls_id]
NewNodeid2wordid(nodeid2wordid) == Append(nodeid2wordid, cls_id)

\* Mutant: the edges run from the [CLS] node to the key nodes
HeadToClsEdges_Reversed(lsimp_node, new_cls_node) ==
    [i \in 1..Len(lsimp_node) |-> <<new_cls_node, lsimp_node[i]>>]

\* lshead_to_cls_edge = [(node, new_cls_node) for node in lsimp_node]
HeadToClsEdges(lsimp_node, new_cls_node) ==
    [i \in 1..Len(lsimp_node) |-> <<lsimp_node[i], new_cls_node>>]

\* Mutant: the [CLS] node is added to the key nodes instead of replacing them
NewKeyNodes_Kept(lsimp_node, new_cls_node) == Append(lsimp_node, new_cls_node)

\* new_lsimp_node = [new_cls_node]
NewKeyNodes(lsimp_node, new_cls_node) == <<new_cls_node>>

\* The body of connect_to_cls_node: the graph it returns, or the assertion
\* that fails.
connect_to_cls_node(sentgraph) ==
    IF sentgraph.nodeid2wordid = None
    THEN [status |-> "AssertionError", at |-> "nodeid2wordid is not None", graph |-> NoGraph]
    ELSE IF ~ClsIdUnused(sentgraph.nodeid2wordid)
    THEN [status |-> "AssertionError", at |-> "cls_id not in nodeid2wordid", graph |-> NoGraph]
    ELSE LET new_nodeid2wordid == NewNodeid2wordid(sentgraph.nodeid2wordid)
             new_cls_node == Len(new_nodeid2wordid) - 1
             lshead_to_cls_edge == HeadToClsEdges(sentgraph.lsimp_node, new_cls_node)
             lshead_to_cls_edge_type ==
                 [i \in 1..Len(sentgraph.lsimp_node) |-> head_to_cls_edge_type]
         IN  [status |-> "ok", at |-> "",
              graph  |-> [lsedge        |-> sentgraph.lsedge \o lshead_to_cls_edge,
                          lsedge_type   |-> sentgraph.lsedge_type \o lshead_to_cls_edge_type,
                          lsimp_node    |-> NewKeyNodes(sentgraph.lsimp_node, new_cls_node),
                          nodeid2wordid |-> new_nodeid2wordid]]

\* src/Gat/utils.py Graph.__hash__: the tuple of tuples that is hashed
GraphHash(g) ==
    <<g.lsedge, g.lsedge_type, g.lsimp_node,
      IF g.nodeid2wordid = None THEN <<>> ELSE g.nodeid2wordid>>

\* list.__eq__: same length and equal elements position by position
ListEq(a, b) == Len(a) = Len(b) /\ \A i \in 1..Len(a) : a[i] = b[i]

\* == on Optional[List[int]]: None equals None only
OptionalListEq(a, b) ==
    IF a = None \/ b = None THEN a = None /\ b = None ELSE ListEq(a, b)

\* Mutant: the edges and their types are compared as sets, whatever their order
GraphEq_Unordered(a, b) ==
    /\ {<<a.lsedge[i], a.lsedge_type[i]>> : i \in 1..MinLen(a.lsedge, a.lsedge_type)}
         = {<<b.lsedge[i], b.lsedge_type[i]>> : i \in 1..MinLen(b.lsedge, b.lsedge_type)}
    /\ Len(a.lsedge) = Len(b.lsedge)
    /\ Len(a.lsedge_type) = Len(b.lsedge_type)
    /\ ListEq(a.lsimp_node, b.lsimp_node)
    /\ OptionalListEq(a.nodeid2wordid, b.nodeid2wordid)

\* src/Gat/utils.py Graph is a NamedTuple and defines no __eq__: == is
\* tuple.__eq__, field by field in the order of declaration.
GraphEq(a, b) ==
    /\ ListEq(a.lsedge, b.lsedge)
    /\ ListEq(a.lsedge_type, b.lsedge_type)
    /\ ListEq(a.lsimp_node, b.lsimp_node)
    /\ OptionalListEq(a.nodeid2wordid, b.nodeid2wordid)

\* The lru_cache around connect_to_cls_node: m is a set of [key, val]; an entry
\* answers when its key has the hash of the argument and equals it. A call
\* that raises stores nothing.
CachedConnect(m, sentgraph) ==
    LET hits == {c \in m : GraphHash(c.key) = GraphHash(sentgraph) /\ GraphEq(c.key, sentgraph)}
    IN  IF hits # {}
        THEN [memo |-> m, status |-> "ok", at |-> "",
              graph |-> (CHOOSE c \in hits : TRUE).val, hit |-> TRUE]
        ELSE LET r == connect_to_cls_node(sentgraph)
             IN  [memo   |-> IF r.status = "ok"
                             THEN m \cup {[key |-> sentgraph, val |-> r.graph]}
                             ELSE m,
                  status |-> r.status, at |-> r.at, graph |-> r.graph, hit |-> FALSE]

\* A graph of the batch before its vocabulary ids are resolved
Unresolved(g) == [g EXCEPT !.nodeid2wordid = None]

\* A call of connect_to_cls_node on a graph of the batch, on that graph with
\* nodeid2wordid still None, or on the graph the previous call returned.
ConnectToClsNode ==
    /\ \E sentgraph \in
            {batch[i] : i \in 1..Len(batch)}
            \cup {Unresolved(batch[i]) : i \in 1..Len(batch)}
            \cup (IF out.op = "connect_to_cls_node" /\ out.status = "ok"
                  THEN {out.graph} ELSE {}) :
          LET r == CachedConnect(memo, sentgraph)
          IN  /\ memo' = r.memo
              /\ out' = [NoResult EXCEPT !.op = "connect_to_cls_node",
                                         !.status = r.status, !.at = r.at,
                                         !.arg = sentgraph,
                                         !.graph = r.graph, !.hit = r.hit]
    /\ UNCHANGED <<batch, undirected>>
    /\ UNCHANGED cachevars
    /\ UNCHANGED heap
    /\ UNCHANGED restvars

----------------------------------------------------------------------------
(* src/Gat/neural/models.py: GATForSeqClsf.prepare_batch *)

\* [self.connect_to_cls_node(sentgraph) for sentgraph in ...]: the calls go
\* through the lru_cache in batch order and stop at the first that raises.
RECURSIVE ConnectAll(_, _, _)
ConnectAll(ls, i, st) ==
    IF i > Len(ls) \/ st.status # "ok" THEN st
    ELSE LET r == CachedConnect(st.memo, ls[i])
         IN  ConnectAll(ls, i + 1,
                        [memo      |-> r.memo,
                         status    |-> r.status,
                         at        |-> r.at,
                         new_batch |-> IF r.status = "ok"
                                       THEN Append(st.new_batch, r.graph)
                                       ELSE st.new_batch])

\* set(map(len, ls)) == {1}
AllOfLenOne(ls) == Len(ls) > 0 /\ \A i \in 1..Len(ls) : Len(ls[i]) = 1

\* Mutant: the mask is set at [dst, src]
adj_Transposed(N, lsedge) ==
    [i \in Nodes(N) |-> [j \in Nodes(N) |->
        IF \E e \in 1..Len(lsedge) : lsedge[e] = <<j, i>> THEN 1 ELSE 0]]

\* Mutant: every node is given a self-loop
adj_SelfLoops(N, lsedge) ==
    [i \in Nodes(N) |-> [j \in Nodes(N) |->
        IF i = j \/ \E e \in 1..Len(lsedge) : lsedge[e] = <<i, j>> THEN 1 ELSE 0]]

\* Mutant: the list is taken as one index of rows, so the rows of all the
\* endpoints are set
adj_Rows(N, lsedge) ==
    [i \in Nodes(N) |-> [j \in Nodes(N) |->
        IF \E e \in 1..Len(lsedge) : i \in {lsedge[e][1], lsedge[e][2]} THEN 1 ELSE 0]]

\* adj = torch.zeros(N, N); adj[list(zip(*lsedge))] = 1: the list holds the
\* tuple of the sources and the tuple of the targets and indexes the two
\* dimensions, so adj[src, dst] becomes 1 for every edge, once or several
\* times; an empty lsedge gives an empty index and sets nothing.  The
\* endpoints are nodes of the batch (0 .. N-1).
adj(N, lsedge) ==
    [i \in Nodes(N) |-> [j \in Nodes(N) |->
        IF \E e \in 1..Len(lsedge) : lsedge[e] = <<i, j>> THEN 1 ELSE 0]]

\* prepare_batch(batch): every example of the batch is a list holding one
\* graph, so the first assertion fails exactly on the empty batch. The
\* result keeps the lists the tensors are built from.
prepare_batch(m, ls, undir) ==
    IF Len(ls) = 0
    THEN [memo |-> m,
          res |-> Raised("prepare_batch", "AssertionError", "set(map(len, batch)) == {1}")]
    ELSE LET c == ConnectAll(ls, 1, [memo |-> m, status |-> "ok", at |-> "",
                                     new_batch |-> <<>>])
             final_pre_torch_preped_X == _coalesce_graph(c.new_batch, undir)
         IN  IF c.status # "ok"
             THEN [memo |-> c.memo, res |-> Raised("prepare_batch", c.status, c.at)]
             ELSE IF ~AllOfLenOne(final_pre_torch_preped_X.lslsimp_node)
             THEN [memo |-> c.memo,
                   res |-> Raised("prepare_batch", "AssertionError",
                                  "set(map(len, lslsimp_node)) == {1}")]
             ELSE LET N == Len(final_pre_torch_preped_X.nodeid2wordid)
                      lslsimp_node == final_pre_torch_preped_X.lslsimp_node
                  IN  [memo |-> c.memo,
                       res |-> [Returned("prepare_batch", final_pre_torch_preped_X)
                                   EXCEPT !.adj = adj(N, final_pre_torch_preped_X.lsedge),
                                          !.cls_node = [i \in 1..Len(lslsimp_node) |->
                                                            lslsimp_node[i][1]]]]

PrepareBatch ==
    /\ LET r == prepare_batch(memo, batch, undirected)
       IN  /\ memo' = r.memo
           /\ out' = r.res
    /\ UNCHANGED <<batch, undirected>>
    /\ UNCHANGED cachevars
    /\ UNCHANGED heap
    /\ UNCHANGED restvars

----------------------------------------------------------------------------
(* src/models.py: GATForSeqClsf.prepare_batch_for_seq_clsf and the unpacking
   in GATForSeqClsf.forward *)

\* The loop body: the same construction as connect_to_cls_node, written
\* inline and without a cache.
ConnectInline(g) ==
    IF g.nodeid2wordid = None
    THEN [status |-> "AssertionError", at |-> "nodeid2wordid is not None", graph |-> NoGraph]
    ELSE IF Contains(g.nodeid2wordid, cls_id)
    THEN [status |-> "AssertionError", at |-> "cls_id not in nodeid2wordid", graph |-> NoGraph]
    ELSE LET new_nodeid2wordid == Append(g.nodeid2wordid, cls_id)
             new_cls_node == Len(new_nodeid2wordid) - 1
         IN  [status |-> "ok", at |-> "",
              graph  |-> [lsedge |-> g.lsedge \o
                              [i \in 1..Len(g.lsimp_node) |-> <<g.lsimp_node[i], new_cls_node>>],
                          lsedge_type |-> g.lsedge_type \o
                              [i \in 1..Len(g.lsimp_node) |-> head_to_cls_edge_type],
                          lsimp_node |-> <<new_cls_node>>,
                          nodeid2wordid |-> new_nodeid2wordid]]

RECURSIVE ConnectAllInline(_, _, _)
ConnectAllInline(ls, i, st) ==
    IF i > Len(ls) \/ st.status # "ok" THEN st
    ELSE LET r == ConnectInline(ls[i])
         IN  ConnectAllInline(ls, i + 1,
                              [status    |-> r.status,
                               at        |-> r.at,
                               new_batch |-> IF r.status = "ok"
                                             THEN Append(st.new_batch, r.graph)
                                             ELSE st.new_batch])

prepare_batch_for_seq_clsf(ls, undir) ==
    IF Len(ls) = 0
    THEN Raised("prepare_batch_for_seq_clsf", "AssertionError",
                "set(map(len, batch)) == {1}")
    ELSE LET c == ConnectAllInline(ls, 1, [status |-> "ok", at |-> "", new_batch |-> <<>>])
             new_X == prepare_batch_old(c.new_batch, undir)
         IN  IF c.status # "ok"
             THEN Raised("prepare_batch_for_seq_clsf", c.status, c.at)
             ELSE IF ~AllOfLenOne(new_X.lslsimp_node)
             THEN Raised("prepare_batch_for_seq_clsf", "AssertionError",
                         "set(map(len, lslsimp_node)) == {1}")
             ELSE Returned("prepare_batch_for_seq_clsf", new_X)

OldPrepareBatchForSeqClsf ==
    /\ out' = prepare_batch_for_seq_clsf(batch, undirected)
    /\ UNCHANGED <<batch, undirected, memo>>
    /\ UNCHANGED cachevars
    /\ UNCHANGED heap
    /\ UNCHANGED restvars

----------------------------------------------------------------------------
(* src/data.py: the objects whose str() ends up in a cache key *)

\* Python values are records tagged with their class in the field py.
PyBool(b) == [py |-> "bool", b |-> b]

PyInt(n) == [py |-> "int", n |-> n]

\* An object of a class of another package (the embedder, the sentence to
\* graph converter): of such an object only what str() gives is used.
PyObject(repr) == [py |-> "object", repr |-> repr]

\* The csv files on disk: a path is the sequence of its components.
CsvFiles ==
    (<<"a", "train.csv">> :>
        [headers |-> <<"id", "text", "label">>,
         rows |-> << <<"1", "love never fails", "yes">> >>])
    @@ (<<"b", "train.csv">> :>
        [headers |-> <<"id", "text", "label">>,
         rows |-> << <<"1", "guard your heart", "no">> >>])
    @@ (<<"a", "dev.csv">> :>
        [headers |-> <<"id", "text", "label">>,
         rows |-> << <<"1", "be watchful", "yes">> >>])
    @@ (<<"a", "vocab.csv">> :>
        [headers |-> <<"text", "label">>,
         rows |-> << <<"Love love fails", "yes">>, <<"love never", "no">> >>])
    @@ (<<"b", "vocab.csv">> :>
        [headers |-> <<"text", "label">>,
         rows |-> << <<"Guard heart", "no">>, <<"guard", "no">> >>])
    @@ (<<"a", "empty.csv">> :>
        [headers |-> <<"text", "label">>,
         rows |-> <<>>])

\* Path.name
PathName(fp) == fp[Len(fp)]

\* list.index
Index(ls, x) ==
    CHOOSE i \in 1..Len(ls) : ls[i] = x /\ \A j \in 1..(i - 1) : ls[j] # x

\* CsvTextSource.__init__ for a file whose header has both columns once: the
\* object keeps the name of the file, not its path, and the two columns.
CsvTextSource(fp, txt_col, lbl_col) ==
    LET f == CsvFiles[fp]
        txt_col_i == Index(f.headers, txt_col)
        lbl_col_i == Index(f.headers, lbl_col)
    IN  [py |-> "CsvTextSource",
         fp_path |-> PathName(fp),
         rows |-> [r \in 1..Len(f.rows) |->
                      <<f.rows[r][txt_col_i], f.rows[r][lbl_col_i]>>]]

\* VocabAndEmb.__init__ up to the call of Cacheable.__init__
VocabAndEmb(txt_src, embedder, lower_case, unk_thres) ==
    [py |-> "VocabAndEmb",
     lower_case |-> PyBool(lower_case),
     embedder |-> embedder,
     unk_thres |-> PyInt(unk_thres),
     txt_src |-> txt_src,
     splitter |-> PyObject("SpacyWordSplitter"),
     _unk_id |-> PyInt(1)]

\* SentenceGraphDataset.__init__ up to the call of Cacheable.__init__
SentenceGraphDataset(txt_src, sent2graph, vocab_and_emb) ==
    [py |-> "SentenceGraphDataset",
     sent2graph |-> sent2graph,
     txt_src |-> txt_src,
     vocab_and_emb |-> vocab_and_emb]

\* Any other subclass of Cacheable: it declares its cached_attrs, makes the
\* attribute key its only uniquer attribute and has one more attribute, note.
Stage(declared, key, note) ==
    [py |-> "Stage",
     declared |-> declared,
     key |-> PyInt(key),
     note |-> PyInt(note)]

\* The property cached_attrs: pairs (pkling_method, attr_name)
cached_attrs(self) ==
    CASE self.py = "VocabAndEmb" ->
            << <<"pkl", "_id2word">>, <<"pkl", "_id2lbl">>, <<"torch", "embs">> >>
      [] self.py = "SentenceGraphDataset" ->
            << <<"pkl", "lslsedge_index">> >>
      [] OTHER -> self.declared

\* The property lscache_uniquer_attr
lscache_uniquer_attr(self) ==
    CASE self.py = "VocabAndEmb" ->
            <<"lower_case", "embedder", "unk_thres", "txt_src">>
      [] self.py = "SentenceGraphDataset" ->
            <<"sent2graph", "txt_src", "vocab_and_emb">>
      [] OTHER -> <<"key">>

\* "-".join(ls[i:])
RECURSIVE JoinDash(_, _)
JoinDash(ls, i) ==
    IF i > Len(ls) THEN ""
    ELSE IF i = Len(ls) THEN ls[i]
    ELSE ls[i] \o "-" \o JoinDash(ls, i + 1)

\* str(v): bool and int as Python prints them, CsvTextSource.__repr__, and
\* for a Cacheable object Cacheable.__repr__, the name of its class followed
\* by attr_str(value) of each uniquer attribute.
RECURSIVE Str(_)
Str(v) ==
    CASE v.py = "bool" -> IF v.b THEN "True" ELSE "False"
      [] v.py = "int" -> ToString(v.n)
      [] v.py = "object" -> v.repr
      [] v.py = "CsvTextSource" -> "CsvTextSource_" \o v.fp_path
      [] OTHER ->
            v.py \o "-"
            \o JoinDash([i \in 1..Len(lscache_uniquer_attr(v)) |->
                            lscache_uniquer_attr(v)[i] \o "_"
                            \o Str(v[lscache_uniquer_attr(v)[i]])], 1)

\* Cacheable.__repr__: the name of the cache entry of self
__repr___EveryAttribute(self) ==
    Str(self) \o (IF self.py = "Stage" THEN "-note_" \o Str(self.note) ELSE "")

__repr__(self) == Str(self)

----------------------------------------------------------------------------
(* src/data.py: Cacheable *)

\* The file system: each existing directory (a path) with its files, each
\* file (a name) with its content.  A file written by torch.save or pkl.dump
\* is the record of the format and of the object, an opened and not yet
\* written file is EmptyFile.
CacheDirs == {"cache", "scratch"}

InitialFs == [d \in {<<cache_dir>> : cache_dir \in CacheDirs} |-> <<>>]

EmptyFile == [fmt |-> "", obj |-> -1]

Dump(pkling_method, obj) == [fmt |-> pkling_method, obj |-> obj]

\* cache_dir / str(self)
specific_cache_dir(cache_dir, self) == <<cache_dir, __repr__(self)>>

\* Path.mkdir(exist_ok=True)
Mkdir(files, dir) ==
    IF dir \in DOMAIN files THEN files ELSE (dir :> <<>>) @@ files

\* Cacheable._cache_fp_for_attr: specific_cache_dir / f"{attr_name}.{pkling_method}"
_cache_fp_for_attr(dir, pkling_method, attr_name) ==
    [dir |-> dir, name |-> attr_name \o "." \o pkling_method]

\* Path.exists
PathExists(files, fp) ==
    fp.dir \in DOMAIN files /\ fp.name \in DOMAIN files[fp.dir]

\* What is in the file fp after it has been opened for writing and written
WriteFile(files, fp, content) ==
    [files EXCEPT ![fp.dir] = (fp.name :> content) @@ files[fp.dir]]

\* Cacheable.cached_exists
cached_exists(files, dir, self) ==
    \A i \in 1..Len(cached_attrs(self)) :
        PathExists(files, _cache_fp_for_attr(dir, cached_attrs(self)[i][1],
                                             cached_attrs(self)[i][2]))

\* One turn of the loop of Cacheable.to_cache.  getattr comes before the
\* file is opened; "torch" and "pkl" open the file "wb" and write it; "json"
\* opens the file for reading, which fails when the file is not there and
\* otherwise makes json.dump fail on the first write; any other method raises.
ToCacheStep_SkipsUnknown(files, dir, bound, pkling_method, attr_name) ==
    LET fp == _cache_fp_for_attr(dir, pkling_method, attr_name)
    IN  IF pkling_method \in {"torch", "pkl"} /\ attr_name \in DOMAIN bound
        THEN [files |-> WriteFile(files, fp, Dump(pkling_method, bound[attr_name])),
              exc |-> "none"]
        ELSE [files |-> files, exc |-> "none"]

ToCacheStep(files, dir, bound, pkling_method, attr_name) ==
    LET fp == _cache_fp_for_attr(dir, pkling_method, attr_name)
    IN  IF attr_name \notin DOMAIN bound
        THEN [files |-> files, exc |-> "AttributeError"]
        ELSE IF pkling_method \in {"torch", "pkl"}
        THEN [files |-> WriteFile(files, fp, Dump(pkling_method, bound[attr_name])),
              exc |-> "none"]
        ELSE IF pkling_method = "json"
        THEN [files |-> files,
              exc |-> IF PathExists(files, fp) THEN "UnsupportedOperation"
                      ELSE "FileNotFoundError"]
        ELSE [files |-> files, exc |-> "Exception"]

\* Cacheable.to_cache from the i-th declared attribute on: what the files
\* are afterwards, the exception that ended it and the attribute it ended at
RECURSIVE to_cache(_, _, _, _, _)
to_cache(files, dir, self, bound, i) ==
    IF i > Len(cached_attrs(self))
    THEN [files |-> files, exc |-> "none", at |-> 0]
    ELSE LET r == ToCacheStep(files, dir, bound, cached_attrs(self)[i][1],
                              cached_attrs(self)[i][2])
         IN  IF r.exc # "none"
             THEN [files |-> r.files, exc |-> r.exc, at |-> i]
             ELSE to_cache(r.files, dir, self, bound, i + 1)

\* One turn of the loop of Cacheable.from_cache: torch.load, pkl.load and
\* json.load each read back what their own format wrote; any other method
\* raises.
FromCacheStep(files, dir, bound, pkling_method, attr_name) ==
    LET fp == _cache_fp_for_attr(dir, pkling_method, attr_name)
    IN  IF pkling_method \notin {"torch", "pkl", "json"}
        THEN [bound |-> bound, exc |-> "Exception"]
        ELSE IF ~PathExists(files, fp)
        THEN [bound |-> bound, exc |-> "FileNotFoundError"]
        ELSE IF files[fp.dir][fp.name] = EmptyFile
        THEN [bound |-> bound, exc |-> "EOFError"]
        ELSE IF files[fp.dir][fp.name].fmt # pkling_method
        THEN [bound |-> bound, exc |-> "UnpicklingError"]
        ELSE [bound |-> (attr_name :> files[fp.dir][fp.name].obj) @@ bound,
              exc |-> "none"]

\* Cacheable.from_cache from the i-th declared attribute on
RECURSIVE from_cache(_, _, _, _, _)
from_cache(files, dir, self, bound, i) ==
    IF i > Len(cached_attrs(self))
    THEN [bound |-> bound, exc |-> "none", at |-> 0]
    ELSE LET r == FromCacheStep(files, dir, bound, cached_attrs(self)[i][1],
                                cached_attrs(self)[i][2])
         IN  IF r.exc # "none"
             THEN [bound |-> r.bound, exc |-> r.exc, at |-> i]
             ELSE from_cache(files, dir, self, r.bound, i + 1)

\* The names of the declared attributes
AttrNames(self) == {cached_attrs(self)[i][2] : i \in 1..Len(cached_attrs(self))}

\* What a call of process leaves on the object: VocabAndEmb.process and
\* SentenceGraphDataset.process set every declared attribute; process of
\* another subclass sets the attributes in binds, or raises.  The value of
\* an attribute is the number of the run that computed it.
ProcessOutcomes(self) ==
    IF self.py \in {"VocabAndEmb", "SentenceGraphDataset"}
    THEN {[exc |-> "none", binds |-> AttrNames(self)]}
    ELSE {[exc |-> "none", binds |-> b] : b \in SUBSET AttrNames(self)}
         \cup {[exc |-> "NotImplementedError", binds |-> {}]}

process(outcome, run) == [a \in outcome.binds |-> run]

\* if self.cached_exists() and not (ignore_cache)
UseCache_WhenExists(existed, ignore_cache) == existed

UseCache(existed, ignore_cache) == existed /\ ~ignore_cache

\* Cacheable.__init__
Cacheable__init__(files, self, cache_dir, ignore_cache, outcome, run) ==
    LET dir == specific_cache_dir(cache_dir, self)
        made == Mkdir(files, dir)
        existed == cached_exists(made, dir, self)
        entry == [self |-> self, cache_dir |-> cache_dir,
                  ignore_cache |-> ignore_cache, run |-> run,
                  identity |-> __repr__(self), existed |-> existed,
                  calls |-> <<>>, exc |-> "none", at |-> 0, bound |-> <<>>]
    IN  IF UseCache(existed, ignore_cache)
        THEN LET r == from_cache(made, dir, self, <<>>, 1)
             IN  [files |-> made,
                  entry |-> [entry EXCEPT !.calls = <<"from_cache">>,
                                          !.exc = r.exc, !.at = r.at,
                                          !.bound = r.bound]]
        ELSE IF outcome.exc # "none"
        THEN [files |-> made,
              entry |-> [entry EXCEPT !.calls = <<"process">>,
                                      !.exc = outcome.exc]]
        ELSE LET bound == process(outcome, run)
                 r == to_cache(made, dir, self, bound, 1)
             IN  [files |-> r.files,
                  entry |-> [entry EXCEPT !.calls = <<"process", "to_cache">>,
                                          !.exc = r.exc, !.at = r.at,
                                          !.bound = bound]]

----------------------------------------------------------------------------
(* The objects that are constructed: a run works on one pool of them *)

MaxEnsures == 3

TrainCsv == CsvTextSource(<<"a", "train.csv">>, "text", "label")

\* The vocabulary of the training file and the ones that differ from it in
\* one argument of the constructor
Vocab0 == VocabAndEmb(TrainCsv, PyObject("glove"), TRUE, 1)

VocabVariants ==
    {VocabAndEmb(TrainCsv, PyObject("glove"), FALSE, 1),
     VocabAndEmb(TrainCsv, PyObject("word2vec"), TRUE, 1),
     VocabAndEmb(TrainCsv, PyObject("glove"), TRUE, 2),
     VocabAndEmb(CsvTextSource(<<"a", "dev.csv">>, "text", "label"),
                 PyObject("glove"), TRUE, 1),
     VocabAndEmb(CsvTextSource(<<"b", "train.csv">>, "text", "label"),
                 PyObject("glove"), TRUE, 1),
     VocabAndEmb(CsvTextSource(<<"a", "train.csv">>, "id", "label"),
                 PyObject("glove"), TRUE, 1)}

\* The dataset over the training file and the ones that differ from it in
\* one argument of the constructor, or in one argument of their vocabulary
Dataset0 == SentenceGraphDataset(TrainCsv, PyObject("srl"), Vocab0)

DatasetVariants ==
    {SentenceGraphDataset(TrainCsv, PyObject("dep"), Vocab0),
     SentenceGraphDataset(CsvTextSource(<<"a", "dev.csv">>, "text", "label"),
                          PyObject("srl"), Vocab0)}
    \cup {SentenceGraphDataset(TrainCsv, PyObject("srl"), v) : v \in VocabVariants}

\* What other subclasses declare as cached_attrs: every method the type of
\* cached_attrs allows, in both positions, and a method it does not allow
Declarations ==
    {<< <<"pkl", "a">>, <<"torch", "b">> >>,
     << <<"json", "a">> >>,
     << <<"pkl", "a">>, <<"json", "b">> >>,
     << <<"json", "a">>, <<"torch", "b">> >>,
     << <<"pkl", "a">>, <<"npy", "b">> >>,
     << <<"npy", "a">>, <<"torch", "b">> >>}

At(self, cache_dir) == [self |-> self, cache_dir |-> cache_dir]

Pools ==
    {{At(Vocab0, "cache"), At(v, "cache")} : v \in VocabVariants}
    \cup {{At(Dataset0, "cache"), At(d, "cache")} : d \in DatasetVariants}
    \cup {{At(Vocab0, "cache"), At(Vocab0, "scratch")}}
    \cup {{At(Stage(d, 1, 1), "cache")} : d \in Declarations}
    \cup {{At(Stage(<< <<"pkl", "a">> >>, 1, 1), "cache"),
            At(Stage(<< <<"pkl", "a">> >>, 1, 2), "scratch")}}

\* The file system a run starts from: the cache directories are empty, or,
\* for an object with attributes that to_cache cannot write (json and
\* unknown methods), the files of the object have been put there by hand,
\* each in the format its name says and with the value 0.
RECURSIVE PutByHand(_, _, _, _)
PutByHand(files, dir, declared, i) ==
    IF i > Len(declared) THEN files
    ELSE PutByHand(WriteFile(files,
                             _cache_fp_for_attr(dir, declared[i][1], declared[i][2]),
                             Dump(declared[i][1], 0)),
                   dir, declared, i + 1)

InitialFiles(objects) ==
    {InitialFs}
    \cup {PutByHand(Mkdir(InitialFs, specific_cache_dir(p.cache_dir, p.self)),
                    specific_cache_dir(p.cache_dir, p.self),
                    cached_attrs(p.self), 1) :
            p \in {q \in objects :
                      \E k \in 1..Len(cached_attrs(q.self)) :
                          cached_attrs(q.self)[k][1] \notin {"torch", "pkl"}}}

\* No process is inside Cacheable.__init__
NoWorkers == <<>>

\* A construction of an object of the pool: the call of Cacheable.__init__
\* that VocabAndEmb.__init__, SentenceGraphDataset.__init__ or the
\* constructor of another subclass makes
Construct ==
    /\ Len(log) < MaxEnsures
    /\ \E p \in pool, ignore_cache \in BOOLEAN :
          \E outcome \in ProcessOutcomes(p.self) :
             LET r == Cacheable__init__(fs, p.self, p.cache_dir, ignore_cache,
                                        outcome, Len(log) + 1)
             IN  /\ fs' = r.files
                 /\ log' = Append(log, r.entry)
    /\ UNCHANGED <<pool, wk>>
    /\ UNCHANGED graphvars
    /\ UNCHANGED heap
    /\ UNCHANGED restvars

----------------------------------------------------------------------------
(* The layers, the vocabulary and the configuration before anything is built *)
NoAtt == [op |-> "none"]
NoEnc == [op |-> "none"]
NoVoc == <<>>
NoCfg == [op |-> "none"]

----------------------------------------------------------------------------
(* The lists of the graphs as objects: nothing is known about them as long as
   only the values matter *)
\* No graph
NoGraphAt == [lsedge |-> 0, lsedge_type |-> 0, lsimp_node |-> 0, nodeid2wordid |-> 0]

NoHeap == [cells |-> <<>>, cache |-> {}, op |-> "none", status |-> "none",
           hit |-> FALSE, arg |-> NoGraphAt, graph |-> NoGraphAt, returned |-> {}]

----------------------------------------------------------------------------
(* The batching code on its own *)
Init ==
    /\ batch \in Batches
    /\ undirected \in BOOLEAN
    /\ memo = {}
    /\ out = NoResult
    /\ pool = {}
    /\ fs = InitialFs
    /\ log = <<>>
    /\ wk = NoWorkers
    /\ heap = NoHeap
    /\ att = NoAtt
    /\ enc = NoEnc
    /\ voc = NoVoc
    /\ cfg = NoCfg

Next ==
    \/ CoalesceGraph
    \/ OldPrepareBatch
    \/ ToUndirected
    \/ ConnectToClsNode
    \/ PrepareBatch
    \/ OldPrepareBatchForSeqClsf

Spec == Init /\ [][Next]_vars

----------------------------------------------------------------------------
(* The caching code on its own: constructions one after the other *)
InitCache ==
    /\ batch = <<>>
    /\ undirected = FALSE
    /\ memo = {}
    /\ out = NoResult
    /\ pool \in Pools
    /\ fs \in InitialFiles(pool)
    /\ log = <<>>
    /\ wk = NoWorkers
    /\ heap = NoHeap
    /\ att = NoAtt
    /\ enc = NoEnc
    /\ voc = NoVoc
    /\ cfg = NoCfg

NextCache == Construct

SpecCache == InitCache /\ [][NextCache]_vars

----------------------------------------------------------------------------
(* The caching code with two processes inside Cacheable.__init__ of the
   same object at the same time.  Each call of the file system is a step:
   cached_exists (its files are never removed, so testing them one by one
   gives what one test at one moment gives), process, and for each declared
   attribute the open and the write of to_cache and the read of from_cache.
   A process writes the number of its worker as the value; the value of an
   entry stored before the two started is 0. *)
Workers == {1, 2}

Idle == [pc |-> "start", ignore_cache |-> FALSE, i |-> 0, bound |-> <<>>,
         exc |-> "none"]

RacePools ==
    {{At(Stage(<< <<"pkl", "a">>, <<"torch", "b">> >>, 1, 1), "cache")},
     {At(Vocab0, "cache")}}

\* The object the two workers construct and its cache directory
RaceSelf == (CHOOSE p \in pool : TRUE).self

RaceDir == specific_cache_dir((CHOOSE p \in pool : TRUE).cache_dir, RaceSelf)

\* specific_cache_dir.mkdir, cached_exists and the choice of the branch
RaceEnter(w) ==
    /\ wk[w].pc = "start"
    /\ \E ignore_cache \in BOOLEAN :
          /\ fs' = Mkdir(fs, RaceDir)
          /\ wk' = [wk EXCEPT ![w] =
                      [@ EXCEPT !.ignore_cache = ignore_cache,
                                !.i = 1,
                                !.pc = IF UseCache(cached_exists(fs', RaceDir, RaceSelf),
                                                   ignore_cache)
                                       THEN "from_cache" ELSE "process"]]
    /\ UNCHANGED <<pool, log>>
    /\ UNCHANGED graphvars
    /\ UNCHANGED heap
    /\ UNCHANGED restvars

\* self.process()
RaceProcess(w) ==
    /\ wk[w].pc = "process"
    /\ \E outcome \in {o \in ProcessOutcomes(RaceSelf) :
                          o.exc = "none" /\ o.binds = AttrNames(RaceSelf)} :
          wk' = [wk EXCEPT ![w] = [@ EXCEPT !.bound = process(outcome, w),
                                            !.pc = "open"]]
    /\ UNCHANGED <<pool, fs, log>>
    /\ UNCHANGED graphvars
    /\ UNCHANGED heap
    /\ UNCHANGED restvars

\* to_cache: fp.open("wb") of the i-th declared attribute empties the file
RaceOpen(w) ==
    /\ wk[w].pc = "open"
    /\ fs' = WriteFile(fs, _cache_fp_for_attr(RaceDir,
                                              cached_attrs(RaceSelf)[wk[w].i][1],
                                              cached_attrs(RaceSelf)[wk[w].i][2]),
                       EmptyFile)
    /\ wk' = [wk EXCEPT ![w] = [@ EXCEPT !.pc = "dump"]]
    /\ UNCHANGED <<pool, log>>
    /\ UNCHANGED graphvars
    /\ UNCHANGED heap
    /\ UNCHANGED restvars

\* to_cache: torch.save or pkl.dump of the i-th declared attribute, then
\* the next attribute or the return
RaceDump(w) ==
    /\ wk[w].pc = "dump"
    /\ LET r == ToCacheStep(fs, RaceDir, wk[w].bound,
                            cached_attrs(RaceSelf)[wk[w].i][1],
                            cached_attrs(RaceSelf)[wk[w].i][2])
       IN  /\ fs' = r.files
           /\ wk' = [wk EXCEPT ![w] =
                       [@ EXCEPT !.exc = r.exc,
                                 !.i = @ + 1,
                                 !.pc = IF r.exc # "none" THEN "raised"
                                        ELSE IF wk[w].i = Len(cached_attrs(RaceSelf))
                                        THEN "done" ELSE "open"]]
    /\ UNCHANGED <<pool, log>>
    /\ UNCHANGED graphvars
    /\ UNCHANGED heap
    /\ UNCHANGED restvars

\* from_cache: the load of the i-th declared attribute, then the next
\* attribute or the return
RaceLoad(w) ==
    /\ wk[w].pc = "from_cache"
    /\ LET r == FromCacheStep(fs, RaceDir, wk[w].bound,
                              cached_attrs(RaceSelf)[wk[w].i][1],
                              cached_attrs(RaceSelf)[wk[w].i][2])
       IN  wk' = [wk EXCEPT ![w] =
                    [@ EXCEPT !.bound = r.bound,
                              !.exc = r.exc,
                              !.i = @ + 1,
                              !.pc = IF r.exc # "none" THEN "raised"
                                     ELSE IF wk[w].i = Len(cached_attrs(RaceSelf))
                                     THEN "done" ELSE "from_cache"]]
    /\ UNCHANGED <<pool, fs, log>>
    /\ UNCHANGED graphvars
    /\ UNCHANGED heap
    /\ UNCHANGED restvars

InitRace ==
    /\ batch = <<>>
    /\ undirected = FALSE
    /\ memo = {}
    /\ out = NoResult
    /\ pool \in RacePools
    /\ fs \in {InitialFs}
              \cup {PutByHand(Mkdir(InitialFs, specific_cache_dir(p.cache_dir, p.self)),
                              specific_cache_dir(p.cache_dir, p.self),
                              cached_attrs(p.self), 1) : p \in pool}
    /\ log = <<>>
    /\ wk = [w \in Workers |-> Idle]
    /\ heap = NoHeap
    /\ att = NoAtt
    /\ enc = NoEnc
    /\ voc = NoVoc
    /\ cfg = NoCfg

NextRace ==
    \E w \in Workers :
        \/ RaceEnter(w)
        \/ RaceProcess(w)
        \/ RaceOpen(w)
        \/ RaceDump(w)
        \/ RaceLoad(w)

SpecRace == InitRace /\ [][NextRace]_vars

----------------------------------------------------------------------------
(* The batching code of src/Gat/neural/models.py with its lists as objects.
   heap.cells gives the content of every list that is alive, under its
   address; a graph is the record of the addresses of its four lists.  The
   lists of the i-th graph of the batch are at InputAddr(i, 1..4), and batch
   keeps what the caller put in them. *)
GraphFields == <<"lsedge", "lsedge_type", "lsimp_node", "nodeid2wordid">>

InputAddr(i, f) == Len(GraphFields) * (i - 1) + f

InputGraph(i) ==
    [lsedge |-> InputAddr(i, 1), lsedge_type |-> InputAddr(i, 2),
     lsimp_node |-> InputAddr(i, 3), nodeid2wordid |-> InputAddr(i, 4)]

InputAddrs(ls) == 1..(Len(GraphFields) * Len(ls))

InputCells(ls) ==
    [a \in InputAddrs(ls) |->
        ls[((a - 1) \div Len(GraphFields)) + 1]
          [GraphFields[((a - 1) % Len(GraphFields)) + 1]]]

\* The lists of a graph
ListsOf(g) == {g.lsedge, g.lsedge_type, g.lsimp_node, g.nodeid2wordid}

\* The graph as a value: what is in its lists
Deref(cells, g) ==
    [lsedge |-> cells[g.lsedge], lsedge_type |-> cells[g.lsedge_type],
     lsimp_node |-> cells[g.lsimp_node], nodeid2wordid |-> cells[g.nodeid2wordid]]

\* The address of the next new list
Fresh(cells) ==
    CHOOSE a \in 1..(Cardinality(DOMAIN cells) + 1) :
        a \notin DOMAIN cells /\ \A b \in 1..(a - 1) : b \in DOMAIN cells

\* [] , [x, ...] and [... for ...]: a new list
NewList(cells, value) ==
    [cells |-> (Fresh(cells) :> value) @@ cells, at |-> Fresh(cells)]

\* a.extend(b), a.append(x): the list at a grows
ListExtend(cells, a, value) ==
    [cells |-> [cells EXCEPT ![a] = @ \o value], at |-> a]

\* a + b: a new list, a stays as it is
ListPlus_InPlace(cells, a, value) == ListExtend(cells, a, value)

ListPlus(cells, a, value) == NewList(cells, cells[a] \o value)

\* The body of connect_to_cls_node on the graph at sentgraph
ConnectLists(cells, sentgraph) ==
    IF ~ClsIdUnused(cells[sentgraph.nodeid2wordid])
    THEN [status |-> "AssertionError", cells |-> cells, graph |-> NoGraphAt]
    ELSE LET new_nodeid2wordid ==
                 ListPlus(cells, sentgraph.nodeid2wordid, <<cls_id>>)
             new_cls_node ==
                 Len(new_nodeid2wordid.cells[new_nodeid2wordid.at]) - 1
             lsimp_node == cells[sentgraph.lsimp_node]
             new_lsedge ==
                 ListPlus(new_nodeid2wordid.cells, sentgraph.lsedge,
                          HeadToClsEdges(lsimp_node, new_cls_node))
             new_lsedge_type ==
                 ListPlus(new_lsedge.cells, sentgraph.lsedge_type,
                          [i \in 1..Len(lsimp_node) |-> head_to_cls_edge_type])
             new_lsimp_node ==
                 NewList(new_lsedge_type.cells, NewKeyNodes(lsimp_node, new_cls_node))
         IN  [status |-> "ok",
              cells |-> new_lsimp_node.cells,
              graph |-> [lsedge |-> new_lsedge.at,
                         lsedge_type |-> new_lsedge_type.at,
                         lsimp_node |-> new_lsimp_node.at,
                         nodeid2wordid |-> new_nodeid2wordid.at]]

\* The lru_cache around connect_to_cls_node: an entry keeps the argument,
\* the hash it had when the entry was made, and the graph returned; it
\* answers a call whose argument has that hash and equals the kept one.
CachedConnectLists(cells, cache, sentgraph) ==
    LET hits == {c \in cache :
                    /\ c.hash = GraphHash(Deref(cells, sentgraph))
                    /\ Deref(cells, c.key) = Deref(cells, sentgraph)}
    IN  IF hits # {}
        THEN [status |-> "ok", cells |-> cells, cache |-> cache,
              graph |-> (CHOOSE c \in hits : TRUE).val, hit |-> TRUE]
        ELSE LET r == ConnectLists(cells, sentgraph)
             IN  [status |-> r.status, cells |-> r.cells,
                  cache |-> IF r.status = "ok"
                            THEN cache \cup
                                 {[key |-> sentgraph,
                                   hash |-> GraphHash(Deref(cells, sentgraph)),
                                   val |-> r.graph]}
                            ELSE cache,
                  graph |-> r.graph, hit |-> FALSE]

\* The loop of _coalesce_graph over the graphs at ls[i..]: acc holds the
\* addresses of the five lists made before the loop, and the counter
RECURSIVE CoalesceListsLoop(_, _, _, _)
CoalesceListsLoop(cells, ls, i, acc) ==
    IF i > Len(ls) THEN cells
    ELSE LET g == Deref(cells, ls[i])
             c1 == ListExtend(cells, acc.nodeid2wordid, g.nodeid2wordid).cells
             c2 == ListExtend(c1, acc.lsedge, ShiftEdges(g.lsedge, acc.counter)).cells
             c3 == ListExtend(c2, acc.lsedge_type, g.lsedge_type).cells
             c4 == ListExtend(c3, acc.lslsimp_node,
                              <<ShiftNodes(g.lsimp_node, acc.counter)>>).cells
             c5 == ListExtend(c4, acc.lsposition_id,
                              Range(Len(g.nodeid2wordid))).cells
         IN  CoalesceListsLoop(c5, ls, i + 1,
                               [acc EXCEPT !.counter = @ + Len(g.nodeid2wordid)])

\* _coalesce_graph on the graphs at ls: the lists it returns
CoalesceLists(cells, ls, undir) ==
    LET lsedge == NewList(cells, <<>>)
        lsedge_type == NewList(lsedge.cells, <<>>)
        lslsimp_node == NewList(lsedge_type.cells, <<>>)
        nodeid2wordid == NewList(lslsimp_node.cells, <<>>)
        lsposition_id == NewList(nodeid2wordid.cells, <<>>)
        looped == CoalesceListsLoop(lsposition_id.cells, ls, 1,
                      [lsedge |-> lsedge.at, lsedge_type |-> lsedge_type.at,
                       lslsimp_node |-> lslsimp_node.at,
                       nodeid2wordid |-> nodeid2wordid.at,
                       lsposition_id |-> lsposition_id.at, counter |-> 0])
        und == MakeUndirected(looped[lsedge.at], looped[lsedge_type.at])
        new_lsedge == NewList(looped, und.new_lsedge)
        new_lsedge_type == NewList(new_lsedge.cells, und.new_lsedge_type)
    IN  IF undir
        THEN [cells |-> new_lsedge_type.cells,
              lists |-> {new_lsedge.at, new_lsedge_type.at, lslsimp_node.at,
                         nodeid2wordid.at, lsposition_id.at}]
        ELSE [cells |-> looped,
              lists |-> {lsedge.at, lsedge_type.at, lslsimp_node.at,
                         nodeid2wordid.at, lsposition_id.at}]

\* The lists that stay alive after a call: those of the batch, those of the
\* graphs the lru_cache keeps, and those of what the call returned
Alive(cells, cache, lists) ==
    LET keep == InputAddrs(batch)
                \cup UNION {ListsOf(c.val) : c \in cache}
                \cup lists
    IN  [a \in (DOMAIN cells) \cap keep |-> cells[a]]

\* A call of _coalesce_graph on the batch
HeapCoalesceGraph ==
    /\ LET r == CoalesceLists(heap.cells,
                              [i \in 1..Len(batch) |-> InputGraph(i)], undirected)
       IN  heap' = [heap EXCEPT !.cells = Alive(r.cells, heap.cache, r.lists),
                                !.op = "_coalesce_graph", !.status = "ok",
                                !.hit = FALSE, !.arg = NoGraphAt,
                                !.graph = NoGraphAt, !.returned = r.lists]
    /\ UNCHANGED graphvars
    /\ UNCHANGED cachevars
    /\ UNCHANGED restvars

\* A call of connect_to_cls_node on a graph of the batch or on the graph
\* that the previous call returned
HeapConnectToClsNode ==
    /\ \E sentgraph \in
            {InputGraph(i) : i \in 1..Len(batch)}
            \cup (IF heap.op = "connect_to_cls_node" /\ heap.status = "ok"
                  THEN {heap.graph} ELSE {}) :
          LET r == CachedConnectLists(heap.cells, heap.cache, sentgraph)
              lists == IF r.status = "ok" THEN ListsOf(r.graph) ELSE {}
          IN  heap' = [cells |-> Alive(r.cells, r.cache, lists \cup ListsOf(sentgraph)),
                       cache |-> r.cache,
                       op |-> "connect_to_cls_node", status |-> r.status,
                       hit |-> r.hit, arg |-> sentgraph,
                       graph |-> r.graph, returned |-> lists]
    /\ UNCHANGED graphvars
    /\ UNCHANGED cachevars
    /\ UNCHANGED restvars

\* [self.connect_to_cls_node(sentgraph) for sentgraph in ...] on the batch
RECURSIVE ConnectAllLists(_, _, _)
ConnectAllLists(ls, i, st) ==
    IF i > Len(ls) \/ st.status # "ok" THEN st
    ELSE LET r == CachedConnectLists(st.cells, st.cache, ls[i])
         IN  ConnectAllLists(ls, i + 1,
                             [cells |-> r.cells, cache |-> r.cache,
                              status |-> r.status,
                              new_batch |-> IF r.status = "ok"
                                            THEN Append(st.new_batch, r.graph)
                                            ELSE st.new_batch])

\* A call of prepare_batch on the batch: what it returns are tensors, which
\* share nothing with the lists they are made from
HeapPrepareBatch ==
    /\ Len(batch) > 0
    /\ LET c == ConnectAllLists([i \in 1..Len(batch) |-> InputGraph(i)], 1,
                                [cells |-> heap.cells, cache |-> heap.cache,
                                 status |-> "ok", new_batch |-> <<>>])
           r == CoalesceLists(c.cells, c.new_batch, undirected)
       IN  heap' = [cells |-> Alive(IF c.status = "ok" THEN r.cells ELSE c.cells,
                                    c.cache, {}),
                    cache |-> c.cache,
                    op |-> "prepare_batch", status |-> c.status,
                    hit |-> FALSE, arg |-> NoGraphAt,
                    graph |-> NoGraphAt, returned |-> {}]
    /\ UNCHANGED graphvars
    /\ UNCHANGED cachevars
    /\ UNCHANGED restvars

\* The batches the lists are followed on
HeapBatches == BatchesUpTo(MaxSize - 1) \cup {ScenarioBatch}

InitHeap ==
    /\ batch \in HeapBatches
    /\ undirected \in BOOLEAN
    /\ memo = {}
    /\ out = NoResult
    /\ pool = {}
    /\ fs = InitialFs
    /\ log = <<>>
    /\ wk = NoWorkers
    /\ heap = [NoHeap EXCEPT !.cells = InputCells(batch)]
    /\ att = NoAtt
    /\ enc = NoEnc
    /\ voc = NoVoc
    /\ cfg = NoCfg

NextHeap ==
    \/ HeapCoalesceGraph
    \/ HeapConnectToClsNode
    \/ HeapPrepareBatch

SpecHeap == InitHeap /\ [][NextHeap]_vars

----------------------------------------------------------------------------
(* What the properties below measure on the input batch *)

RECURSIVE SumSeq(_, _)
\* ns[1] + ... + ns[n]
SumSeq(ns, n) == IF n = 0 THEN 0 ELSE SumSeq(ns, n - 1) + ns[n]

NodeCounts(ls) == [i \in 1..Len(ls) |-> Len(ls[i].nodeid2wordid)]
EdgeCounts(ls) == [i \in 1..Len(ls) |-> Len(ls[i].lsedge)]

\* n_1 + ... + n_{i-1}, and the same for the edges
Offset(ls, i) == SumSeq(NodeCounts(ls), i - 1)
EdgeOffset(ls, i) == SumSeq(EdgeCounts(ls), i - 1)

Coalescers == {"_coalesce_graph", "prepare_batch_old"}

----------------------------------------------------------------------------
\* C1: in directed mode the coalesced edge list is the concatenation, in
\* graph order, of each graph's edges with both endpoints shifted by the
\* number of nodes of the graphs before it, the edge types are the
\* concatenation of the graphs' edge types, and there is one key-node group
\* per graph.
C1_OffsetCorrectness ==
    (out.op \in Coalescers /\ out.status = "ok" /\ ~undirected) =>
        /\ Len(out.lsedge) = SumSeq(EdgeCounts(batch), Len(batch))
        /\ Len(out.lsedge_type) = SumSeq(EdgeCounts(batch), Len(batch))
        /\ \A i \in 1..Len(batch) : \A j \in 1..Len(batch[i].lsedge) :
              /\ out.lsedge[EdgeOffset(batch, i) + j] =
                    <<batch[i].lsedge[j][1] + Offset(batch, i),
                      batch[i].lsedge[j][2] + Offset(batch, i)>>
              /\ out.lsedge_type[EdgeOffset(batch, i) + j] = batch[i].lsedge_type[j]
        /\ Len(out.lslsimp_node) = Len(batch)

\* A directed coalescing of at least two graphs, the second with an edge
C1_Witness ==
    /\ out.op = "_coalesce_graph" /\ out.status = "ok" /\ ~undirected
    /\ Len(batch) >= 2
    /\ Len(batch[2].lsedge) >= 1

----------------------------------------------------------------------------
\* C2: for every batch whose graphs have as many edge types as edges, the
\* coalesced result has len(edges) = len(edge_types) and one key-node group
\* per graph, in directed and in undirected mode, in both coalescers.
C2_FieldLengths ==
    (out.op \in Coalescers /\ out.status = "ok") =>
        /\ Len(out.lsedge) = Len(out.lsedge_type)
        /\ Len(out.lslsimp_node) = Len(batch)

\* The same statement for GATModel._coalesce_graph alone
C2_FieldLengthsCoalesceGraph ==
    (out.op = "_coalesce_graph" /\ out.status = "ok") =>
        /\ Len(out.lsedge) = Len(out.lsedge_type)
        /\ Len(out.lslsimp_node) = Len(batch)

----------------------------------------------------------------------------
\* C3: the coalesced nodeid2wordid is the concatenation of the graphs'
\* nodeid2wordid in order; position ids restart at 0 for each graph (global
\* node g of graph i has position g - offset_i); key-node group i is graph
\* i's key nodes each shifted by offset_i, all inside graph i's block
\* [offset_i, offset_i + n_i).
C3_NodesPositionsKeyGroups ==
    (out.op \in Coalescers /\ out.status = "ok") =>
        /\ Len(out.nodeid2wordid) = SumSeq(NodeCounts(batch), Len(batch))
        /\ Len(out.lslsimp_node) = Len(batch)
        /\ \A i \in 1..Len(batch) :
              /\ \A j \in 1..Len(batch[i].nodeid2wordid) :
                    /\ out.nodeid2wordid[Offset(batch, i) + j] = batch[i].nodeid2wordid[j]
                    /\ out.op = "_coalesce_graph" =>
                          /\ Len(out.lsposition_id) = Len(out.nodeid2wordid)
                          /\ out.lsposition_id[Offset(batch, i) + j] = j - 1
              /\ Len(out.lslsimp_node[i]) = Len(batch[i].lsimp_node)
              /\ \A j \in 1..Len(batch[i].lsimp_node) :
                    /\ out.lslsimp_node[i][j] = batch[i].lsimp_node[j] + Offset(batch, i)
                    /\ out.lslsimp_node[i][j] >= Offset(batch, i)
                    /\ out.lslsimp_node[i][j] < Offset(batch, i) + Len(batch[i].nodeid2wordid)

\* A coalescing whose second graph has two nodes and follows a graph with nodes
C3_Witness ==
    /\ out.op = "_coalesce_graph" /\ out.status = "ok"
    /\ Len(batch) >= 2
    /\ Len(batch[2].nodeid2wordid) >= 2

----------------------------------------------------------------------------
(* After the [CLS] node is added graph i has n_i + 1 nodes *)

KeyCounts(ls) == [i \in 1..Len(ls) |-> Len(ls[i].lsimp_node)]

\* (n_1 + 1) + ... + (n_{i-1} + 1)
ClsOffset(ls, i) == Offset(ls, i) + (i - 1)

\* the edges of the graphs before graph i, the added ones included
ClsEdgeOffset(ls, i) == EdgeOffset(ls, i) + SumSeq(KeyCounts(ls), i - 1)

ClsBatchOps == {"prepare_batch", "prepare_batch_for_seq_clsf"}

NoClsIn(ls) == \A i \in 1..Len(ls) : ~Contains(ls[i].nodeid2wordid, cls_id)

CountCls(nodeid2wordid) ==
    Cardinality({i \in 1..Len(nodeid2wordid) : nodeid2wordid[i] = cls_id})

----------------------------------------------------------------------------
\* C4: connect_to_cls_node on a graph with n nodes that does not carry cls_id
\* returns a graph with n + 1 nodes whose nodeid2wordid is the original
\* followed by cls_id and whose key nodes are exactly [n]; after the
\* injection and coalescing of a non-empty batch every key-node group has
\* exactly one element, the last node of its graph's block, and the
\* assertion on the group sizes never fails.
C4_ClsNodeIsTheKeyNode ==
    /\ (/\ out.op = "connect_to_cls_node"
        /\ out.arg.nodeid2wordid # None
        /\ ~Contains(out.arg.nodeid2wordid, cls_id)) =>
            /\ out.status = "ok"
            /\ out.graph.nodeid2wordid = out.arg.nodeid2wordid \o <<cls_id>>
            /\ Len(out.graph.nodeid2wordid) = Len(out.arg.nodeid2wordid) + 1
            /\ out.graph.lsimp_node = <<Len(out.arg.nodeid2wordid)>>
    /\ out.op \in ClsBatchOps =>
            /\ out.at # "set(map(len, lslsimp_node)) == {1}"
            /\ (Len(batch) > 0 /\ NoClsIn(batch)) =>
                  /\ out.status = "ok"
                  /\ Len(out.lslsimp_node) = Len(batch)
                  /\ \A i \in 1..Len(batch) :
                        out.lslsimp_node[i] =
                            <<ClsOffset(batch, i) + Len(batch[i].nodeid2wordid)>>

\* A batch of at least two graphs, one with two key nodes, went through
\* prepare_batch
C4_Witness ==
    /\ out.op = "prepare_batch" /\ out.status = "ok"
    /\ Len(batch) >= 2
    /\ \E i \in 1..Len(batch) : Len(batch[i].lsimp_node) = 2

----------------------------------------------------------------------------
\* C5: connect_to_cls_node keeps the original edges and edge types as an
\* unchanged prefix and appends one edge (k, new_node) of type
\* head_to_cls_edge_type for every entry k of the original key nodes, in
\* their order: len(edges) + len(key_nodes) edges and as many edge types.
\* The inline construction of prepare_batch_for_seq_clsf does the same, as
\* the directed coalesced batch shows.
C5_ClsEdgesAppended ==
    /\ (out.op = "connect_to_cls_node" /\ out.status = "ok") =>
          LET n == Len(out.arg.nodeid2wordid)
              e == Len(out.arg.lsedge)
              k == Len(out.arg.lsimp_node)
          IN  /\ Len(out.graph.lsedge) = e + k
              /\ Len(out.graph.lsedge_type) = e + k
              /\ \A j \in 1..e :
                    /\ out.graph.lsedge[j] = out.arg.lsedge[j]
                    /\ out.graph.lsedge_type[j] = out.arg.lsedge_type[j]
              /\ \A j \in 1..k :
                    /\ out.graph.lsedge[e + j] = <<out.arg.lsimp_node[j], n>>
                    /\ out.graph.lsedge_type[e + j] = head_to_cls_edge_type
    /\ (out.op \in ClsBatchOps /\ out.status = "ok" /\ ~undirected) =>
          /\ Len(out.lsedge) = ClsEdgeOffset(batch, Len(batch) + 1)
          /\ Len(out.lsedge_type) = ClsEdgeOffset(batch, Len(batch) + 1)
          /\ \A i \in 1..Len(batch) :
                LET off  == ClsOffset(batch, i)
                    base == ClsEdgeOffset(batch, i)
                    n    == Len(batch[i].nodeid2wordid)
                    e    == Len(batch[i].lsedge)
                IN  /\ \A j \in 1..e :
                          /\ out.lsedge[base + j] =
                                <<batch[i].lsedge[j][1] + off, batch[i].lsedge[j][2] + off>>
                          /\ out.lsedge_type[base + j] = batch[i].lsedge_type[j]
                    /\ \A j \in 1..Len(batch[i].lsimp_node) :
                          /\ out.lsedge[base + e + j] =
                                <<batch[i].lsimp_node[j] + off, n + off>>
                          /\ out.lsedge_type[base + e + j] = head_to_cls_edge_type

\* connect_to_cls_node returned for a graph with an edge and two key nodes
C5_Witness ==
    /\ out.op = "connect_to_cls_node" /\ out.status = "ok"
    /\ Len(out.arg.lsedge) >= 1
    /\ Len(out.arg.lsimp_node) = 2

----------------------------------------------------------------------------
\* C6: connect_to_cls_node fails, returning no graph, whenever cls_id already
\* occurs in the graph's nodeid2wordid and when nodeid2wordid is None; no
\* graph it returns, now or from its cache, and no prepared batch has a
\* graph with two nodes carrying cls_id.
C6_ClsCollisionFails ==
    /\ (/\ out.op = "connect_to_cls_node"
        /\ \/ out.arg.nodeid2wordid = None
           \/ Contains(out.arg.nodeid2wordid, cls_id)) =>
            /\ out.status = "AssertionError"
            /\ out.graph = NoGraph
    /\ (out.op \in ClsBatchOps /\ ~NoClsIn(batch)) => out.status = "AssertionError"
    /\ (out.op = "connect_to_cls_node" /\ out.status = "ok") =>
            CountCls(out.graph.nodeid2wordid) = 1
    /\ \A c \in memo : CountCls(c.val.nodeid2wordid) = 1
    /\ (out.op \in ClsBatchOps /\ out.status = "ok") =>
            CountCls(out.nodeid2wordid) = Len(batch)

\* connect_to_cls_node was refused a graph that carries cls_id, after it had
\* returned for another graph
C6_Witness ==
    /\ out.op = "connect_to_cls_node" /\ out.status = "AssertionError"
    /\ Contains(out.arg.nodeid2wordid, cls_id)
    /\ memo # {}

----------------------------------------------------------------------------
\* C7 as stated: a second call of connect_to_cls_node on the same graph, with
\* the same cls_id, fails.
C7_SecondCallOnSameGraphFails ==
    [][(/\ out.op = "connect_to_cls_node" /\ out.status = "ok"
        /\ out'.op = "connect_to_cls_node"
        /\ out'.arg = out.arg) => out'.status = "AssertionError"]_vars

\* C7 as amended: connect_to_cls_node fails on the graph a previous call
\* returned (cls_id is present in that graph) and stores nothing for it; a
\* second call on the same, unchanged input graph succeeds and returns the
\* graph the first call returned.
C7_ReinjectionOfResultFails ==
    [][(/\ out.op = "connect_to_cls_node" /\ out.status = "ok"
        /\ out'.op = "connect_to_cls_node") =>
            /\ out'.arg = out.graph =>
                  /\ out'.status = "AssertionError"
                  /\ out'.at = "cls_id not in nodeid2wordid"
                  /\ memo' = memo
            /\ out'.arg = out.arg =>
                  /\ out'.status = "ok"
                  /\ out'.graph = out.graph
                  /\ out'.hit]_vars

\* connect_to_cls_node was refused a graph that an earlier call had returned
C7_Witness ==
    /\ out.op = "connect_to_cls_node" /\ out.status = "AssertionError"
    /\ \E c \in memo : c.val = out.arg

----------------------------------------------------------------------------
(* Undirected edges *)

\* the pair with the smaller endpoint first
Canon(e) == IF e[1] <= e[2] THEN e ELSE <<e[2], e[1]>>

Rev(e) == <<e[2], e[1]>>

\* edge j of graph i in the numbering of the whole batch
GlobalEdge(ls, i, j) ==
    <<ls[i].lsedge[j][1] + Offset(ls, i), ls[i].lsedge[j][2] + Offset(ls, i)>>

\* the directed edges of the batch in the numbering of the whole batch
DirectedEdges(ls) ==
    UNION { {GlobalEdge(ls, i, j) : j \in 1..Len(ls[i].lsedge)} : i \in 1..Len(ls) }

SeqRange(ls) == {ls[i] : i \in 1..Len(ls)}

\* every emitted edge has its reverse, and there are two emitted edges per
\* distinct undirected pair of the input
Closed(input, lsedge) ==
    /\ \A i \in 1..Len(lsedge) : \E j \in 1..Len(lsedge) : lsedge[j] = Rev(lsedge[i])
    /\ Len(lsedge) = 2 * Cardinality({Canon(e) : e \in input})

----------------------------------------------------------------------------
\* C8: after symmetrization, for every (a, b) present (b, a) is present too,
\* and the output has exactly twice as many edges as the input has distinct
\* canonical undirected pairs; in each symmetrization of the repository.
C8_SymmetrizationClosure ==
    /\ (out.op \in Coalescers /\ out.status = "ok" /\ undirected) =>
            Closed(DirectedEdges(batch), out.lsedge)
    /\ out.op = "to_undirected" => Closed(SeqRange(out.arg.lsedge), out.lsedge)

\* The same statement without the older GATModel.prepare_batch
C8_SymmetrizationClosureNewer ==
    /\ (out.op = "_coalesce_graph" /\ out.status = "ok" /\ undirected) =>
            Closed(DirectedEdges(batch), out.lsedge)
    /\ out.op = "to_undirected" => Closed(SeqRange(out.arg.lsedge), out.lsedge)

----------------------------------------------------------------------------
\* the first edge of graph i that makes the same undirected pair as edge j
FirstSamePair(g, j) ==
    CHOOSE j1 \in 1..j :
        /\ Canon(g.lsedge[j1]) = Canon(g.lsedge[j])
        /\ \A j2 \in 1..(j1 - 1) : Canon(g.lsedge[j2]) # Canon(g.lsedge[j])

FirstTypeWins(ops) ==
    (out.op \in ops /\ out.status = "ok" /\ undirected) =>
        /\ Len(out.lsedge) = Len(out.lsedge_type)
        /\ \A i \in 1..Len(batch) : \A j \in 1..Len(batch[i].lsedge) :
              LET p == Canon(GlobalEdge(batch, i, j))
                  t == batch[i].lsedge_type[FirstSamePair(batch[i], j)]
              IN  /\ \E q \in 1..Len(out.lsedge) : out.lsedge[q] = p
                  /\ \E q \in 1..Len(out.lsedge) : out.lsedge[q] = Rev(p)
                  /\ \A q \in 1..Len(out.lsedge) :
                        out.lsedge[q] \in {p, Rev(p)} => out.lsedge_type[q] = t

\* C9: when several input edges make the same undirected pair with different
\* types, both emitted directions carry the type of the first such edge in
\* input order, and every emitted edge has its type at its own index.
C9_FirstTypeWins == FirstTypeWins(Coalescers)

\* The same statement for GATModel._coalesce_graph alone
C9_FirstTypeWinsCoalesceGraph == FirstTypeWins({"_coalesce_graph"})

----------------------------------------------------------------------------
\* C10: for G1 = (edges [(0,1)], types [0], key nodes [1], ids [5,6]) and
\* G2 = (edges [(0,1)], types [1], key nodes [1], ids [7,8]), the injection
\* of the [CLS] node (cls_id 9, edge type 2) and directed coalescing give
\* nodeid2wordid [5,6,9,7,8,9], edges that contain (0,1), (1,2), (3,4), (4,5)
\* and key-node groups [[2],[5]].
C10_EndToEndScenario ==
    (batch = ScenarioBatch /\ out.op \in ClsBatchOps /\ ~undirected) =>
        /\ cls_id = 9 /\ head_to_cls_edge_type = 2
        /\ out.status = "ok"
        /\ out.nodeid2wordid = <<5, 6, 9, 7, 8, 9>>
        /\ {<<0, 1>>, <<1, 2>>, <<3, 4>>, <<4, 5>>} \subseteq SeqRange(out.lsedge)
        /\ out.lslsimp_node = <<<<2>>, <<5>>>>

\* prepare_batch returned for the two graphs of the scenario
C10_Witness ==
    /\ batch = ScenarioBatch /\ ~undirected
    /\ out.op = "prepare_batch" /\ out.status = "ok"

----------------------------------------------------------------------------
(* What the properties below measure on the log of constructions *)

\* Constructions i and j work on the same cache entry
SameEntry(i, j) ==
    /\ log[i].cache_dir = log[j].cache_dir
    /\ log[i].identity = log[j].identity

\* Construction j is the next one after i on the cache entry of i
NextOnEntry(i, j) ==
    /\ i < j
    /\ SameEntry(i, j)
    /\ \A k \in (i + 1)..(j - 1) : ~SameEntry(i, k)

\* Construction i is the first one on its cache entry and found it empty
FirstOnEntry(i) ==
    /\ \A k \in 1..(i - 1) : ~SameEntry(k, i)
    /\ ~log[i].existed

\* The methods that the type of cached_attrs allows
SupportedKinds == {"torch", "pkl", "json"}

DeclaredKinds(self) == {cached_attrs(self)[i][1] : i \in 1..Len(cached_attrs(self))}

\* Construction i ran process, and process set every declared attribute
ProcessedAll(i) ==
    /\ log[i].calls # <<>>
    /\ log[i].calls[1] = "process"
    /\ Len(log[i].calls) = 2
    /\ DOMAIN log[i].bound = AttrNames(log[i].self)

\* The round trip between two constructions without ignore_cache, the first
\* of which computes, for the objects whose declared methods are all in kinds
RoundTrip(kinds) ==
    \A i \in 1..Len(log), j \in 1..Len(log) :
        ( /\ NextOnEntry(i, j)
          /\ FirstOnEntry(i)
          /\ ~log[i].ignore_cache
          /\ ~log[j].ignore_cache
          /\ DeclaredKinds(log[i].self) \subseteq kinds
          /\ ProcessedAll(i) )
        => log[j].calls = <<"from_cache">>

\* C11: an object constructed twice without ignore_cache, nothing else
\* touching the files in between, runs process once, in the first
\* construction, and from_cache in the second, whichever of torch, pkl and
\* json its attributes are declared with.
C11_CacheRoundTrip == RoundTrip(SupportedKinds)

\* The same for the objects that declare torch and pkl only
C11_CacheRoundTripPickled == RoundTrip({"torch", "pkl"})

C11_WitnessPickled ==
    \E i \in 1..Len(log), j \in 1..Len(log) :
        /\ NextOnEntry(i, j)
        /\ FirstOnEntry(i)
        /\ ~log[i].ignore_cache
        /\ ~log[j].ignore_cache
        /\ ProcessedAll(i)
        /\ log[i].exc = "none"
        /\ log[j].calls = <<"from_cache">>
        /\ log[j].exc = "none"

----------------------------------------------------------------------------
\* Two objects of the same class differ in the value of a uniquer attribute
DifferInUniquer(a, b) ==
    /\ a.py = b.py
    /\ \E k \in 1..Len(lscache_uniquer_attr(a)) :
          a[lscache_uniquer_attr(a)[k]] # b[lscache_uniquer_attr(a)[k]]

\* Two objects of the same class differ in str() of a uniquer attribute
DifferInUniquerStr(a, b) ==
    /\ a.py = b.py
    /\ \E k \in 1..Len(lscache_uniquer_attr(a)) :
          Str(a[lscache_uniquer_attr(a)[k]]) # Str(b[lscache_uniquer_attr(a)[k]])

\* Every construction before the j-th was of the object of the i-th
OnlyBefore(i, j) ==
    /\ i < j
    /\ \A k \in 1..(j - 1) : log[k].self = log[i].self

\* Objects that differ in the sense of Differ have different names, and the
\* second, constructed without ignore_cache in the cache directory that only
\* constructions of the first have written to, runs process
FreshWhenDifferent(Differ(_, _)) ==
    \A i \in 1..Len(log), j \in 1..Len(log) :
        Differ(log[i].self, log[j].self)
        => /\ log[i].identity # log[j].identity
           /\ ( /\ OnlyBefore(i, j)
                /\ log[i].cache_dir = log[j].cache_dir
                /\ ~log[j].ignore_cache )
              => /\ log[j].calls[1] = "process"
                 /\ \A a \in DOMAIN log[j].bound : log[j].bound[a] = j

\* C12: two objects of the same class that differ in the value of a uniquer
\* attribute have different names, so the second, constructed without
\* ignore_cache after the first, runs process and loads nothing of the first.
C12_UniquerChangeForcesProcess == FreshWhenDifferent(DifferInUniquer)

\* The same for two objects that differ in str() of a uniquer attribute
C12_UniquerStrChangeForcesProcess == FreshWhenDifferent(DifferInUniquerStr)

C12_WitnessStr ==
    \E i \in 1..Len(log), j \in 1..Len(log) :
        /\ DifferInUniquerStr(log[i].self, log[j].self)
        /\ OnlyBefore(i, j)
        /\ log[i].exc = "none"
        /\ ~log[j].ignore_cache
        /\ log[j].exc = "none"

----------------------------------------------------------------------------
\* The name of the class, then for each uniquer attribute in declared order
\* a dash, the name of the attribute, an underscore and str() of its value
RECURSIVE DashedEntries(_, _)
DashedEntries(self, k) ==
    IF k = 0 THEN ""
    ELSE DashedEntries(self, k - 1)
         \o "-" \o lscache_uniquer_attr(self)[k]
         \o "_" \o Str(self[lscache_uniquer_attr(self)[k]])

ExpectedIdentity(self) ==
    self.py \o DashedEntries(self, Len(lscache_uniquer_attr(self)))

\* Two objects of the same class agree in str() of every uniquer attribute
SameUniquerStr(a, b) ==
    /\ a.py = b.py
    /\ \A k \in 1..Len(lscache_uniquer_attr(a)) :
          Str(a[lscache_uniquer_attr(a)[k]]) = Str(b[lscache_uniquer_attr(a)[k]])

\* C13: the name of a cache entry is the name of the class, a dash and the
\* dash-joined attr_value entries of the uniquer attributes in declared
\* order; two objects of one class with the same uniquer strings have the
\* same name in whichever order they are constructed, whatever their other
\* attributes, their cache_dir and their ignore_cache.
C13_IdentityFromUniquerAttributes ==
    /\ \A i \in 1..Len(log) : log[i].identity = ExpectedIdentity(log[i].self)
    /\ \A i \in 1..Len(log), j \in 1..Len(log) :
          SameUniquerStr(log[i].self, log[j].self)
          => log[i].identity = log[j].identity

C13_Witness ==
    \E i \in 1..Len(log), j \in 1..Len(log) :
        /\ i < j
        /\ SameUniquerStr(log[i].self, log[j].self)
        /\ log[i].self # log[j].self
        /\ log[i].cache_dir # log[j].cache_dir
        /\ log[i].ignore_cache # log[j].ignore_cache
        /\ log[i].identity = log[j].identity

----------------------------------------------------------------------------
\* The content of the file of the k-th declared attribute of construction i
StoredBlob(i, k) ==
    fs[specific_cache_dir(log[i].cache_dir, log[i].self)]
      [_cache_fp_for_attr(specific_cache_dir(log[i].cache_dir, log[i].self),
                          cached_attrs(log[i].self)[k][1],
                          cached_attrs(log[i].self)[k][2]).name]

\* The files of construction i hold what run i computed, every one of them
StoredByRun(i) ==
    \A k \in 1..Len(cached_attrs(log[i].self)) :
        /\ PathExists(fs, _cache_fp_for_attr(
                              specific_cache_dir(log[i].cache_dir, log[i].self),
                              cached_attrs(log[i].self)[k][1],
                              cached_attrs(log[i].self)[k][2]))
        /\ StoredBlob(i, k).obj = i

\* C14: a construction calls from_cache, and neither process nor to_cache,
\* when ignore_cache is false and the files of every declared attribute
\* exist; otherwise it calls process and then to_cache (to_cache is not
\* reached when process raises) and never from_cache; with ignore_cache the
\* files of a complete entry are written again by the construction.
C14_EnsureBranches ==
    /\ \A i \in 1..Len(log) :
          IF ~log[i].ignore_cache /\ log[i].existed
          THEN log[i].calls = <<"from_cache">>
          ELSE \/ log[i].calls = <<"process", "to_cache">>
               \/ /\ log[i].calls = <<"process">>
                  /\ log[i].exc = "NotImplementedError"
    /\ ( /\ log # <<>>
         /\ log[Len(log)].ignore_cache
         /\ log[Len(log)].existed
         /\ log[Len(log)].exc = "none" )
       => StoredByRun(Len(log))

C14_Witness ==
    /\ Len(log) = 3
    /\ log[1].calls = <<"process", "to_cache">>
    /\ ~log[1].existed
    /\ ~log[2].ignore_cache
    /\ log[2].calls = <<"from_cache">>
    /\ log[3].ignore_cache
    /\ log[3].existed
    /\ log[3].exc = "none"
    /\ StoredByRun(3)

----------------------------------------------------------------------------
\* The attributes set on the object of construction i are the declared ones
\* and their values were all computed by one and the same run
BoundFromOneRun(i) ==
    /\ DOMAIN log[i].bound = AttrNames(log[i].self)
    /\ \E run \in 0..i : \A a \in DOMAIN log[i].bound : log[i].bound[a] = run

\* The cache entry of construction i held no file before the constructions
StartedEmpty(i) ==
    \A k \in 1..i :
        (SameEntry(k, i) /\ \A h \in 1..(k - 1) : ~SameEntry(h, i))
        => ~log[k].existed

\* C15: when a construction returns, every declared attribute is set and the
\* values are those of one earlier to_cache or of this construction's own
\* process, never a part of them and never values of different runs,
\* whatever constructions succeeded or failed on the cache entry before.
C15_BoundFromOneRun ==
    \A i \in 1..Len(log) :
        (log[i].exc = "none" /\ StartedEmpty(i)) => BoundFromOneRun(i)

\* The same as long as no earlier construction on the cache entry has failed
C15_BoundFromOneRunNoFailure ==
    \A i \in 1..Len(log) :
        ( /\ log[i].exc = "none"
          /\ StartedEmpty(i)
          /\ \A k \in 1..(i - 1) : SameEntry(k, i) => log[k].exc = "none" )
        => BoundFromOneRun(i)

C15_WitnessNoFailure ==
    /\ Len(log) = 3
    /\ ~log[1].existed
    /\ \A i \in 1..3 : log[i].exc = "none" /\ SameEntry(1, i)
    /\ log[2].ignore_cache
    /\ log[3].calls = <<"from_cache">>
    /\ Len(cached_attrs(log[3].self)) > 1

----------------------------------------------------------------------------
\* What construction i stored is what the next construction on its cache
\* entry, made without ignore_cache, loads, for the objects whose declared
\* methods are all in kinds; and every file of a construction holds the
\* format that the method in its name writes
StoreThenLoad(kinds) ==
    /\ \A i \in 1..Len(log), j \in 1..Len(log) :
          ( /\ NextOnEntry(i, j)
            /\ ProcessedAll(i)
            /\ ~log[j].ignore_cache
            /\ DeclaredKinds(log[i].self) \subseteq kinds )
          => /\ log[j].calls = <<"from_cache">>
             /\ log[j].exc = "none"
             /\ log[j].bound = log[i].bound
    /\ \A i \in 1..Len(log) : \A k \in 1..Len(cached_attrs(log[i].self)) :
          ( /\ cached_attrs(log[i].self)[k][1] \in kinds
            /\ PathExists(fs, _cache_fp_for_attr(
                                  specific_cache_dir(log[i].cache_dir, log[i].self),
                                  cached_attrs(log[i].self)[k][1],
                                  cached_attrs(log[i].self)[k][2])) )
          => StoredBlob(i, k).fmt = cached_attrs(log[i].self)[k][1]

\* C16: for attributes declared torch, pkl or json, what to_cache stored from
\* one object is what from_cache sets on another object with the same name,
\* each file read by the method and under the attr.method name it was
\* written with.
C16_StoreLoadRoundTrip == StoreThenLoad(SupportedKinds)

\* The same for the objects that declare torch and pkl only
C16_StoreLoadRoundTripPickled == StoreThenLoad({"torch", "pkl"})

C16_WitnessPickled ==
    \E i \in 1..Len(log), j \in 1..Len(log) :
        /\ NextOnEntry(i, j)
        /\ ProcessedAll(i)
        /\ DeclaredKinds(log[i].self) = {"torch", "pkl"}
        /\ log[i].ignore_cache
        /\ log[i].existed
        /\ log[j].calls = <<"from_cache">>
        /\ log[j].bound = log[i].bound
        /\ log[j].self # log[i].self

----------------------------------------------------------------------------
\* The first declared attribute of self that satisfies Bad, 0 if none does
FirstDeclared(self, Bad(_)) ==
    IF \E k \in 1..Len(cached_attrs(self)) : Bad(cached_attrs(self)[k])
    THEN CHOOSE k \in 1..Len(cached_attrs(self)) :
            /\ Bad(cached_attrs(self)[k])
            /\ \A h \in 1..(k - 1) : ~Bad(cached_attrs(self)[h])
    ELSE 0

\* The first attribute declared with a method outside torch, pkl and json
FirstUnknownKind(self) ==
    LET Bad(d) == d[1] \notin SupportedKinds
    IN  FirstDeclared(self, Bad)

\* The first declared attribute that process left unset in construction i
FirstMissing(i) ==
    LET Bad(d) == d[2] \notin DOMAIN log[i].bound
    IN  FirstDeclared(log[i].self, Bad)

\* Construction i went through process and to_cache
Computed(i) == log[i].calls = <<"process", "to_cache">>

\* C17: a construction of an object that declares a method outside torch,
\* pkl and json raises, and so does a construction whose process leaves a
\* declared attribute unset; neither returns, wherever the attribute stands
\* in cached_attrs and whether from_cache or process and to_cache ran.  When
\* nothing else is wrong before it, the exception is the one of the unknown
\* method (Exception) or of the missing attribute (AttributeError), raised
\* at the first such attribute.
C17_ContractViolationsRaise ==
    \A i \in 1..Len(log) :
        /\ FirstUnknownKind(log[i].self) # 0 => log[i].exc # "none"
        /\ (Computed(i) /\ FirstMissing(i) # 0) => log[i].exc # "none"
        /\ ( /\ FirstUnknownKind(log[i].self) # 0
             /\ log[i].calls = <<"from_cache">> )
           => /\ log[i].exc = "Exception"
              /\ log[i].at = FirstUnknownKind(log[i].self)
        /\ ( /\ FirstUnknownKind(log[i].self) # 0
             /\ Computed(i)
             /\ FirstMissing(i) = 0
             /\ "json" \notin DeclaredKinds(log[i].self) )
           => /\ log[i].exc = "Exception"
              /\ log[i].at = FirstUnknownKind(log[i].self)
        /\ ( /\ Computed(i)
             /\ FirstMissing(i) # 0
             /\ DeclaredKinds(log[i].self) \subseteq {"torch", "pkl"} )
           => /\ log[i].exc = "AttributeError"
              /\ log[i].at = FirstMissing(i)

C17_Witness ==
    /\ Len(log) = 3
    /\ FirstUnknownKind(log[1].self) = 2
    /\ log[1].calls = <<"from_cache">>
    /\ log[1].exc = "Exception"
    /\ Computed(2)
    /\ FirstMissing(2) = 0
    /\ log[2].exc = "Exception"
    /\ Computed(3)
    /\ FirstMissing(3) = 1
    /\ log[3].exc = "AttributeError"

----------------------------------------------------------------------------
\* Both workers have left Cacheable.__init__
BothLeft == \A w \in Workers : wk[w].pc \in {"done", "raised"}

\* The file of the k-th declared attribute of the object of the workers
RaceBlob(k) ==
    fs[RaceDir][_cache_fp_for_attr(RaceDir, cached_attrs(RaceSelf)[k][1],
                                   cached_attrs(RaceSelf)[k][2]).name]

\* The files of all declared attributes are there and were written by one
\* to_cache: that of worker 1, that of worker 2, or the one before them (0)
FilesFromOneStore ==
    /\ cached_exists(fs, RaceDir, RaceSelf)
    /\ \E run \in {0} \cup Workers :
          \A k \in 1..Len(cached_attrs(RaceSelf)) : RaceBlob(k).obj = run

\* What worker w has set from the files comes from one to_cache
LoadedFromOneStore(w) ==
    \E run \in {0} \cup Workers :
        \A a \in DOMAIN wk[w].bound : wk[w].bound[a] = run

\* C18: two workers constructing the same object at the same time both
\* return, whatever the order of their steps; afterwards the entry exists
\* and its files are those of one worker's to_cache, not some of each; and
\* a worker that went through from_cache has set values of one to_cache only.
C18_LastWriterWins ==
    /\ BothLeft
       => /\ \A w \in Workers : wk[w].pc = "done"
          /\ FilesFromOneStore
    /\ \A w \in Workers : LoadedFromOneStore(w)

\* What does hold: when both have returned the entry exists, and every file
\* holds a value that some to_cache wrote whole
C18_EntryExistsAfterwards ==
    (\A w \in Workers : wk[w].pc = "done")
    => /\ cached_exists(fs, RaceDir, RaceSelf)
       /\ \A k \in 1..Len(cached_attrs(RaceSelf)) :
             RaceBlob(k).obj \in {0} \cup Workers

C18_WitnessBothReturned ==
    /\ \A w \in Workers : wk[w].pc = "done" /\ ~wk[w].ignore_cache
    /\ \A k \in 1..Len(cached_attrs(RaceSelf)) : RaceBlob(k).obj = 2
    /\ wk[1].bound = [a \in AttrNames(RaceSelf) |-> 1]

----------------------------------------------------------------------------
\* The classes of the objects that are Cacheable themselves
CacheableClasses == {"VocabAndEmb", "SentenceGraphDataset", "Stage"}

\* Objects a and b of one class have, under one of their uniquer attributes,
\* two Cacheable objects that differ in the sense of Differ
UpstreamDiffers(a, b, Differ(_, _)) ==
    /\ a.py = b.py
    /\ \E k \in 1..Len(lscache_uniquer_attr(a)) :
          /\ a[lscache_uniquer_attr(a)[k]].py \in CacheableClasses
          /\ Differ(a[lscache_uniquer_attr(a)[k]], b[lscache_uniquer_attr(a)[k]])

\* A change of the upstream object, in the sense of Differ, changes the name
\* of the downstream object, and the downstream object constructed without
\* ignore_cache after the one over the old upstream runs process
Invalidates(Differ(_, _)) ==
    \A i \in 1..Len(log), j \in 1..Len(log) :
        UpstreamDiffers(log[i].self, log[j].self, Differ)
        => /\ log[i].identity # log[j].identity
           /\ ( /\ OnlyBefore(i, j)
                /\ log[i].cache_dir = log[j].cache_dir
                /\ ~log[j].ignore_cache )
              => /\ log[j].calls[1] = "process"
                 /\ \A a \in DOMAIN log[j].bound : log[j].bound[a] = j

\* C19: when an object has another Cacheable object among its uniquer
\* attributes (SentenceGraphDataset has its VocabAndEmb), a change of the
\* value of a uniquer attribute of that object (unk_thres, the text source)
\* changes the name of the first, which is then computed again and not
\* loaded from the files made with the old one.
C19_TransitiveInvalidation == Invalidates(DifferInUniquer)

\* The same for a change of str() of a uniquer attribute of the upstream
C19_TransitiveInvalidationStr == Invalidates(DifferInUniquerStr)

C19_WitnessStr ==
    \E i \in 1..Len(log), j \in 1..Len(log) :
        /\ UpstreamDiffers(log[i].self, log[j].self, DifferInUniquerStr)
        /\ log[i].self.vocab_and_emb.unk_thres # log[j].self.vocab_and_emb.unk_thres
        /\ OnlyBefore(i, j)
        /\ log[i].exc = "none"
        /\ ~log[j].ignore_cache
        /\ log[j].calls = <<"process", "to_cache">>
        /\ log[j].exc = "none"

----------------------------------------------------------------------------
\* The four lists of every graph of the batch hold what the caller put there
InputsUnchanged ==
    \A i \in 1..Len(batch) : Deref(heap.cells, InputGraph(i)) = batch[i]

\* The graphs that the lru_cache keeps hold what connect_to_cls_node made of
\* their argument: they are the input of _coalesce_graph in prepare_batch
MemoizedUnchanged ==
    \A c \in heap.cache :
        Deref(heap.cells, c.val)
          = connect_to_cls_node(Deref(heap.cells, c.key)).graph

\* No list of what the last call returned, and no list of a memoized graph,
\* is a list of a graph of the batch or of the argument of the call
NothingShared ==
    /\ heap.returned \cap InputAddrs(batch) = {}
    /\ heap.returned \cap ListsOf(heap.arg) = {}
    /\ \A c \in heap.cache :
          /\ ListsOf(c.val) \cap InputAddrs(batch) = {}
          /\ ListsOf(c.val) \cap ListsOf(c.key) = {}

\* C20: _coalesce_graph (with its undirected branch), connect_to_cls_node
\* (also when called again on the same graph and answered by the lru_cache)
\* and prepare_batch, in any order and number, leave lsedge, lsedge_type,
\* lsimp_node and nodeid2wordid of every graph given to them as they were,
\* and no list of a graph they return is a list of a graph given to them.
C20_InputsUntouched ==
    /\ InputsUnchanged
    /\ MemoizedUnchanged
    /\ NothingShared

C20_Witness ==
    /\ heap.op = "connect_to_cls_node"
    /\ heap.status = "ok"
    /\ heap.hit
    /\ Cardinality(heap.cache) = 2
    /\ heap.returned # {}
    /\ undirected
    /\ Len(heap.cells[heap.arg.lsedge]) > 0
    /\ heap.cells[heap.graph.nodeid2wordid]
         = Append(heap.cells[heap.arg.nodeid2wordid], cls_id)

----------------------------------------------------------------------------
(* The lru_cache of connect_to_cls_node on graphs that differ in the order
   of their edges only, in their edge types only, or in having no
   vocabulary ids against having an empty list of them *)

\* Two edges in one order
MemoG == [lsedge |-> <<<<0, 1>>, <<1, 0>>>>, lsedge_type |-> <<0, 1>>,
          lsimp_node |-> <<0>>, nodeid2wordid |-> <<cls_id - 1, cls_id - 1>>]

\* The same typed edges in the other order
MemoGSwapped == [MemoG EXCEPT !.lsedge = <<<<1, 0>>, <<0, 1>>>>, !.lsedge_type = <<1, 0>>]

\* The same edges, the types exchanged
MemoGRetyped == [MemoG EXCEPT !.lsedge_type = <<1, 0>>]

\* One of its nodes carries cls_id
MemoGWithCls == [MemoG EXCEPT !.nodeid2wordid = <<cls_id - 1, cls_id>>]

\* The graph without nodes: nodeid2wordid is the empty list
MemoGEmpty == [lsedge |-> <<>>, lsedge_type |-> <<>>, lsimp_node |-> <<>>,
               nodeid2wordid |-> <<>>]

MemoGraphs == {MemoG, MemoGSwapped, MemoGRetyped, MemoGWithCls, MemoGEmpty}

MemoBatches ==
    UNION { [1..n -> MemoGraphs] : n \in 1..3 }

InitMemo ==
    /\ batch \in MemoBatches
    /\ undirected = FALSE
    /\ memo = {}
    /\ out = NoResult
    /\ pool = {}
    /\ fs = InitialFs
    /\ log = <<>>
    /\ wk = NoWorkers
    /\ heap = NoHeap
    /\ att = NoAtt
    /\ enc = NoEnc
    /\ voc = NoVoc
    /\ cfg = NoCfg

NextMemo == ConnectToClsNode

SpecMemo == InitMemo /\ [][NextMemo]_vars

----------------------------------------------------------------------------
(* C21: Graph equality, Graph hash and the memo keyed by Graph *)

\* The graphs a call can be given in this state, and the keys of the memo
GraphsInPlay ==
    {batch[i] : i \in 1..Len(batch)}
    \cup {Unresolved(batch[i]) : i \in 1..Len(batch)}
    \cup {c.key : c \in memo}
    \cup {c.val : c \in memo}

\* b has the typed edges of a in another order, and is a in everything else
Reordered(a, b) ==
    /\ a.lsedge # b.lsedge
    /\ GraphEq_Unordered(a, b)

\* C21: two graphs are equal exactly when their four fields are equal, the
\* edges and edge types position by position; equal graphs have equal
\* hashes; every entry of the memo holds what connect_to_cls_node computes
\* for its key and a call answered by the memo returns what it computes for
\* the argument; a graph without vocabulary ids has the hash of the graph
\* with an empty list of them, is not equal to it, and is never answered by
\* the memo.
C21_GraphEqualityAndHash ==
    /\ \A a, b \in GraphsInPlay :
          /\ GraphEq(a, b) <=> (/\ a.lsedge = b.lsedge
                                /\ a.lsedge_type = b.lsedge_type
                                /\ a.lsimp_node = b.lsimp_node
                                /\ a.nodeid2wordid = b.nodeid2wordid)
          /\ Reordered(a, b) => ~GraphEq(a, b)
          /\ GraphEq(a, b) => GraphHash(a) = GraphHash(b)
    /\ \A c \in memo :
          /\ connect_to_cls_node(c.key).status = "ok"
          /\ c.val = connect_to_cls_node(c.key).graph
    /\ (out.op = "connect_to_cls_node" /\ out.hit) =>
          /\ out.status = "ok"
          /\ out.graph = connect_to_cls_node(out.arg).graph
    /\ \A g \in GraphsInPlay :
          g.nodeid2wordid = <<>> =>
              /\ GraphHash(Unresolved(g)) = GraphHash(g)
              /\ ~GraphEq(Unresolved(g), g)
              /\ CachedConnect(memo, Unresolved(g)).status = "AssertionError"
              /\ ~CachedConnect(memo, Unresolved(g)).hit

\* The memo answered a call while it also held the same edges in the other
\* order under another key, and it holds the graph with an empty list of
\* vocabulary ids, whose hash a graph without vocabulary ids shares.
C21_Witness ==
    /\ out.op = "connect_to_cls_node"
    /\ out.hit
    /\ \E c \in memo : Reordered(c.key, out.arg) /\ c.val # out.graph
    /\ \E c \in memo :
          /\ c.key.nodeid2wordid = <<>>
          /\ GraphHash(Unresolved(c.key)) = GraphHash(c.key)

----------------------------------------------------------------------------
(* Graph multi-head attention (Gat.neural.layers.GraphMultiHeadAttention),
   one layer at inference, where the dropout on the weights does nothing.
   Numbers are integers: a feature vector has one component per head, the
   projections of a head are multiplications by its own weights, exp is
   2^x (positive, increasing, 0 for the logit -infinity), and a weighted mean
   is the fraction <<numerator, denominator>> in lowest terms. *)

\* The nodes of the graph the layer is run on
AttNodes == 0..2

Heads == {1, 2}

\* The values a node feature takes
FeatureValues == {1, 2}

\* Each head owns its query, key and value projection
Projection ==
    [h \in Heads |-> IF h = 1 THEN [q |-> 1, k |-> 1, v |-> 1]
                              ELSE [q |-> 1, k |-> 2, v |-> 3]]

Query(h, x) == Projection[h].q * x
Key(h, x)   == Projection[h].k * x
Value(h, x) == Projection[h].v * x

\* The bias a head adds to the key of an edge of type t; type 0 carries none
KeyBias(h, t) == IF t = 0 THEN 0 ELSE h

\* edge_type_ids[i][j]: the type of the edge (i, j), defined where the mask is 1
EdgeTypeIds(lsedge, lsedge_type) ==
    [i \in AttNodes |-> [j \in AttNodes |->
        IF \E e \in 1..Len(lsedge) : lsedge[e] = <<i, j>>
        THEN lsedge_type[CHOOSE e \in 1..Len(lsedge) : lsedge[e] = <<i, j>>]
        ELSE 0]]

\* The logit of (i, j) where the mask is 1
Logit(h, node_features, edge_type_ids, i, j) ==
    Query(h, node_features[i])
        * (Key(h, node_features[j]) + KeyBias(h, edge_type_ids[i][j]))

Exp(x) == 2 ^ x

\* exp of the logits of row i; where the mask is 0 the logit is -infinity
\* and its exp is 0
ExpLogits(h, mask, node_features, edge_type_ids, i) ==
    [j \in AttNodes |->
        IF mask[i][j] = 1 THEN Exp(Logit(h, node_features, edge_type_ids, i, j)) ELSE 0]

RECURSIVE SumOver(_, _)
SumOver(f, S) ==
    IF S = {} THEN 0
    ELSE LET x == CHOOSE y \in S : TRUE IN f[x] + SumOver(f, S \ {x})

RECURSIVE GCD(_, _)
GCD(a, b) == IF b = 0 THEN a ELSE GCD(b, a % b)

Fraction(n, d) == <<n \div GCD(n, d), d \div GCD(n, d)>>

ZeroOutput == <<0, 1>>

\* what 0/0 gives
NaN == <<0, 0>>

\* softmax over j and the weighted sum of the values, for row i of head h
WeightedSum(h, mask, node_features, edge_type_ids, i) ==
    LET e   == ExpLogits(h, mask, node_features, edge_type_ids, i)
        den == SumOver(e, AttNodes)
        num == SumOver([j \in AttNodes |-> e[j] * Value(h, node_features[j])], AttNodes)
    IN  IF den = 0 THEN NaN ELSE Fraction(num, den)

\* The row of a node whose mask row is all zero is the zero vector
HeadOutput(h, mask, node_features, edge_type_ids, i) ==
    IF \A j \in AttNodes : mask[i][j] = 0
    THEN ZeroOutput
    ELSE WeightedSum(h, mask, node_features, edge_type_ids, i)

\* The output of the layer: for every head, a row per node
GraphMultiHeadAttention(mask, node_features, edge_type_ids) ==
    [h \in Heads |-> [i \in AttNodes |->
        HeadOutput(h, mask, node_features, edge_type_ids, i)]]

\* No node has been perturbed yet
NoPerturbation ==
    [j |-> -1,
     node_features |-> [i \in AttNodes |-> 0],
     out |-> [h \in Heads |-> [i \in AttNodes |-> ZeroOutput]]]

\* The edge lists the layer is run on: at most two edges, no edge twice
AttEdgeLists ==
    {<<>>}
    \cup {<<e>> : e \in AttNodes \X AttNodes}
    \cup {p \in {<<e, f>> : e \in AttNodes \X AttNodes, f \in AttNodes \X AttNodes} :
             p[1] # p[2]}

InitAttention ==
    /\ batch = <<>>
    /\ undirected = FALSE
    /\ memo = {}
    /\ out = NoResult
    /\ pool = {}
    /\ fs = InitialFs
    /\ log = <<>>
    /\ wk = NoWorkers
    /\ heap = NoHeap
    /\ \E lsedge \in AttEdgeLists :
       \E lsedge_type \in [1..Len(lsedge) -> 0..(nedge_type - 1)] :
       \E node_features \in [AttNodes -> FeatureValues] :
          att = [op            |-> "init",
                 lsedge        |-> lsedge,
                 lsedge_type   |-> lsedge_type,
                 adj           |-> adj(Cardinality(AttNodes), lsedge),
                 node_features |-> node_features,
                 out           |-> NoPerturbation.out,
                 before        |-> NoPerturbation]
    /\ enc = NoEnc
    /\ voc = NoVoc
    /\ cfg = NoCfg

\* The layer is run on the features as they are
AttForward ==
    /\ att.op # "forward"
    /\ att' = [att EXCEPT
                 !.op = "forward",
                 !.out = GraphMultiHeadAttention(
                             att.adj, att.node_features,
                             EdgeTypeIds(att.lsedge, att.lsedge_type))]
    /\ UNCHANGED <<enc, voc, cfg>>
    /\ UNCHANGED graphvars
    /\ UNCHANGED cachevars
    /\ UNCHANGED heap

\* The features of one node are changed after a run; the features and the
\* output of that run are kept for comparison
AttPerturb ==
    /\ att.op = "forward"
    /\ \E j \in AttNodes : \E x \in FeatureValues \ {att.node_features[j]} :
          att' = [att EXCEPT
                    !.op = "perturb",
                    !.node_features[j] = x,
                    !.before = [j |-> j, node_features |-> att.node_features,
                                out |-> att.out]]
    /\ UNCHANGED <<enc, voc, cfg>>
    /\ UNCHANGED graphvars
    /\ UNCHANGED cachevars
    /\ UNCHANGED heap

NextAttention ==
    \/ AttForward
    \/ AttPerturb

SpecAttention == InitAttention /\ [][NextAttention]_vars

----------------------------------------------------------------------------
(* C22: attention restricted to the edges of the graph *)

\* The layer has been run
AttRan == att.op = "forward"

\* The layer has been run, a node perturbed, and the layer run again
AttRanAgain == att.op = "forward" /\ att.before.j \in AttNodes

\* The normalised weight of (i, j) is zero wherever the mask is zero
MaskedWeightsAreZero ==
    \A h \in Heads, i \in AttNodes, j \in AttNodes :
        att.adj[i][j] = 0 =>
            ExpLogits(h, att.adj, att.node_features,
                      EdgeTypeIds(att.lsedge, att.lsedge_type), i)[j] = 0

\* On the graph with the one edge (0, 1), the row of node 0 is the value
\* vector of node 1
OneEdgeScenario ==
    att.lsedge = <<<<0, 1>>>> =>
        \A h \in Heads : att.out[h][0] = <<Value(h, att.node_features[1]), 1>>

\* C22 as stated: wherever mask[i][j] = 0 the weight of (i, j) is zero, and
\* changing the features of any node j with mask[i][j] = 0 leaves the output
\* row of node i unchanged, for every head; on the graph with the one edge
\* (0, 1) the output of node 0 is determined by node 1.
C22_MaskedNodesDoNotInfluence ==
    /\ MaskedWeightsAreZero
    /\ AttRan => OneEdgeScenario
    /\ AttRanAgain =>
          \A h \in Heads, i \in AttNodes :
              att.adj[i][att.before.j] = 0 => att.out[h][i] = att.before.out[h][i]

\* C22 amended: the node whose features change is another node than i.  The
\* row of node i is computed from the query of node i, so the features of i
\* itself count even when i has no self-loop.
C22_OtherMaskedNodesDoNotInfluence ==
    /\ MaskedWeightsAreZero
    /\ AttRan => OneEdgeScenario
    /\ AttRanAgain =>
          \A h \in Heads, i \in AttNodes \ {att.before.j} :
              att.adj[i][att.before.j] = 0 => att.out[h][i] = att.before.out[h][i]

\* A node was perturbed and the layer run again: the row of some other node
\* that does not attend to it is a weighted mean and has stayed, while some
\* row has changed.
C22_Witness ==
    /\ AttRanAgain
    /\ \E h \in Heads, i \in AttNodes \ {att.before.j} :
          /\ att.adj[i][att.before.j] = 0
          /\ \E k \in AttNodes : att.adj[i][k] = 1
          /\ att.out[h][i] = att.before.out[h][i]
    /\ \E h \in Heads, i \in AttNodes : att.out[h][i] # att.before.out[h][i]

----------------------------------------------------------------------------
(* C23: the row of a node that attends to nothing *)

\* The mask row of node i is all zero
ZeroRow(i) == \A j \in AttNodes : att.adj[i][j] = 0

\* The values of the nodes that node i attends to, for head h
AttendedValues(h, i) ==
    {Value(h, att.node_features[j]) : j \in {k \in AttNodes : att.adj[i][k] = 1}}

----------------------------------------------------------------------------
(* src/data.py: VocabAndEmb *)

\* str.lower on the texts of the csv files
Lower(s) ==
    CASE s = "Love love fails" -> "love love fails"
      [] s = "Guard heart" -> "guard heart"
      [] OTHER -> s

\* SpacyWordSplitter: the words of a text, in order
SplitWords(s) ==
    CASE s = "Love love fails" -> <<"Love", "love", "fails">>
      [] s = "love love fails" -> <<"love", "love", "fails">>
      [] s = "love never" -> <<"love", "never">>
      [] s = "Guard heart" -> <<"Guard", "heart">>
      [] s = "guard heart" -> <<"guard", "heart">>
      [] s = "guard" -> <<"guard">>
      [] OTHER -> <<s>>

\* Counter.update(lsword) from the i-th word on: a Counter is kept as the
\* list of its items <<word, count>> in the order the words first came
RECURSIVE CounterUpdate(_, _, _)
CounterUpdate(word_counts, lsword, i) ==
    IF i > Len(lsword) THEN word_counts
    ELSE CounterUpdate(
            IF \E k \in 1..Len(word_counts) : word_counts[k][1] = lsword[i]
            THEN [k \in 1..Len(word_counts) |->
                    IF word_counts[k][1] = lsword[i]
                    THEN <<lsword[i], word_counts[k][2] + 1>>
                    ELSE word_counts[k]]
            ELSE Append(word_counts, <<lsword[i], 1>>),
            lsword, i + 1)

\* for lsword in lslsword: word_counts.update(lsword)
RECURSIVE CountWords(_, _, _)
CountWords(word_counts, lslsword, i) ==
    IF i > Len(lslsword) THEN word_counts
    ELSE CountWords(CounterUpdate(word_counts, lslsword[i], 1), lslsword, i + 1)

\* Mutant: a word is kept when its count is above unk_thres
RECURSIVE KeptWords_Above(_, _, _)
KeptWords_Above(word_counts, unk_thres, i) ==
    IF i > Len(word_counts) THEN <<>>
    ELSE (IF word_counts[i][2] > unk_thres THEN <<word_counts[i][1]>> ELSE <<>>)
         \o KeptWords_Above(word_counts, unk_thres, i + 1)

\* [word for word, count in word_counts.items() if count >= self.unk_thres]
RECURSIVE KeptWords(_, _, _)
KeptWords(word_counts, unk_thres, i) ==
    IF i > Len(word_counts) THEN <<>>
    ELSE (IF word_counts[i][2] >= unk_thres THEN <<word_counts[i][1]>> ELSE <<>>)
         \o KeptWords(word_counts, unk_thres, i + 1)

\* sorted(set(lslbl)) for the labels of the csv files
SortedLabels(lslbl) ==
    (IF \E i \in 1..Len(lslbl) : lslbl[i] = "no" THEN <<"no">> ELSE <<>>)
    \o (IF \E i \in 1..Len(lslbl) : lslbl[i] = "yes" THEN <<"yes">> ELSE <<>>)

\* The rows of embs: zeros for [PAD], the embedder's vector for unknown words
\* at _unk_id, and the embedder's vector of each word from the third row on
Embeddings(embedder, _id2word) ==
    [i \in 1..Len(_id2word) |->
        IF i = 1 THEN <<"zeros">>
        ELSE IF i = 2 THEN <<Str(embedder), "for_unk">>
        ELSE <<Str(embedder), _id2word[i]>>]

\* VocabAndEmb.process: the attributes it binds, or the exception it raises.
\* zip(*self.txt_src) of a source without rows has nothing to unpack.
VocabAndEmb_process(self) ==
    IF Len(self.txt_src.rows) = 0
    THEN [exc |-> "ValueError", bound |-> <<>>]
    ELSE LET rows == self.txt_src.rows
             lstxt == [r \in 1..Len(rows) |->
                          IF self.lower_case.b THEN Lower(rows[r][1]) ELSE rows[r][1]]
             lslbl == [r \in 1..Len(rows) |-> rows[r][2]]
             lslsword == [r \in 1..Len(rows) |-> SplitWords(lstxt[r])]
             word_counts == CountWords(<<>>, lslsword, 1)
             _id2word == <<"[PAD]", "[UNK]">>
                         \o KeptWords(word_counts, self.unk_thres.n, 1)
         IN  [exc |-> "none",
              bound |-> ("_id2word" :> _id2word)
                        @@ ("_id2lbl" :> SortedLabels(lslbl))
                        @@ ("embs" :> Embeddings(self.embedder, _id2word))]

\* {word: id_ for id_, word in enumerate(ls)}: a word that comes twice keeps
\* its last id
DictOfList(ls) ==
    [w \in {ls[i] : i \in 1..Len(ls)} |->
        (CHOOSE i \in 1..Len(ls) : ls[i] = w /\ \A j \in (i + 1)..Len(ls) : ls[j] # w) - 1]

\* VocabAndEmb.__init__: Cacheable.__init__ with VocabAndEmb.process as
\* process, then the two dictionaries
VocabAndEmb__init__(files, self, cache_dir, ignore_cache) ==
    LET dir == specific_cache_dir(cache_dir, self)
        made == Mkdir(files, dir)
        existed == cached_exists(made, dir, self)
        entry == [self |-> self, cache_dir |-> cache_dir,
                  ignore_cache |-> ignore_cache,
                  identity |-> __repr__(self), existed |-> existed,
                  calls |-> <<>>, exc |-> "none", bound |-> <<>>,
                  _word2id |-> <<>>, _lbl2id |-> <<>>]
        Finish(e) ==
            IF e.exc # "none" THEN e
            ELSE [e EXCEPT !._word2id = DictOfList(e.bound["_id2word"]),
                           !._lbl2id = DictOfList(e.bound["_id2lbl"])]
    IN  IF UseCache(existed, ignore_cache)
        THEN LET r == from_cache(made, dir, self, <<>>, 1)
             IN  [files |-> made,
                  entry |-> Finish([entry EXCEPT !.calls = <<"from_cache">>,
                                                 !.exc = r.exc, !.bound = r.bound])]
        ELSE LET p == VocabAndEmb_process(self)
                 r == to_cache(made, dir, self, p.bound, 1)
             IN  IF p.exc # "none"
                 THEN [files |-> made,
                       entry |-> [entry EXCEPT !.calls = <<"process">>, !.exc = p.exc]]
                 ELSE [files |-> r.files,
                       entry |-> Finish([entry EXCEPT
                                           !.calls = <<"process", "to_cache">>,
                                           !.exc = r.exc, !.bound = p.bound])]

\* The number of vocabularies a run constructs
MaxVocabs == 3

UnkThresholds == {1, 2}

VocabFiles == {<<"a", "vocab.csv">>, <<"b", "vocab.csv">>, <<"a", "empty.csv">>}

\* The vocabularies of the csv files, all in one cache directory
Vocabularies ==
    {At(VocabAndEmb(CsvTextSource(fp, "text", "label"), PyObject("glove"),
                    lower_case, unk_thres), "cache") :
        fp \in VocabFiles, lower_case \in BOOLEAN, unk_thres \in UnkThresholds}

\* A run constructs one or two of them, each any number of times
VocabPools == {{a, b} : a \in Vocabularies, b \in Vocabularies}

InitVocab ==
    /\ batch = <<>>
    /\ undirected = FALSE
    /\ memo = {}
    /\ out = NoResult
    /\ pool \in VocabPools
    /\ fs = InitialFs
    /\ log = <<>>
    /\ wk = NoWorkers
    /\ heap = NoHeap
    /\ att = NoAtt
    /\ enc = NoEnc
    /\ voc = NoVoc
    /\ cfg = NoCfg

\* A construction of a vocabulary of the pool
ConstructVocab ==
    /\ Len(voc) < MaxVocabs
    /\ \E p \in pool, ignore_cache \in BOOLEAN :
          LET r == VocabAndEmb__init__(fs, p.self, p.cache_dir, ignore_cache)
          IN  /\ fs' = r.files
              /\ voc' = Append(voc, r.entry)
    /\ UNCHANGED <<pool, log, wk>>
    /\ UNCHANGED <<att, enc, cfg>>
    /\ UNCHANGED graphvars
    /\ UNCHANGED heap

NextVocab == ConstructVocab

SpecVocab == InitVocab /\ [][NextVocab]_vars

----------------------------------------------------------------------------
(* C24: the vocabulary that VocabAndEmb builds *)

\* The words of the text source of self, each with its place: row and
\* position, after lower-casing when lower_case is set
WordPlaces(self) ==
    UNION { { <<r, k, SplitWords(IF self.lower_case.b
                                  THEN Lower(self.txt_src.rows[r][1])
                                  ELSE self.txt_src.rows[r][1])[k]>> :
                k \in 1..Len(SplitWords(IF self.lower_case.b
                                        THEN Lower(self.txt_src.rows[r][1])
                                        ELSE self.txt_src.rows[r][1])) } :
            r \in 1..Len(self.txt_src.rows) }

\* How often the word w comes in the text source of self
CorpusCount(self, w) == Cardinality({p \in WordPlaces(self) : p[3] = w})

\* The reserved tokens and every word that comes at least unk_thres times
ExpectedVocabulary(self) ==
    {"[PAD]", "[UNK]"}
    \cup {w \in {p[3] : p \in WordPlaces(self)} : CorpusCount(self, w) >= self.unk_thres.n}

\* The i-th construction returned a vocabulary
VocabBuilt(i) == voc[i].exc = "none"

\* The vocabulary of the i-th construction is the one of its text source
VocabularyOfItsSource(i) ==
    LET _id2word == voc[i].bound["_id2word"]
    IN  /\ IsInjective(_id2word)
        /\ {_id2word[k] : k \in 1..Len(_id2word)} = ExpectedVocabulary(voc[i].self)
        /\ _id2word = VocabAndEmb_process(voc[i].self).bound["_id2word"]

\* C24: for every text source and unk_thres, the id-to-token list of a
\* constructed vocabulary has no duplicates, holds exactly the reserved
\* tokens and the words that come at least unk_thres times (lower-cased when
\* lower_case is set), and is the list process() computes, whether it was
\* computed or loaded from the cache.
C24_VocabularyOfTheSource ==
    \A i \in 1..Len(voc) : VocabBuilt(i) => VocabularyOfItsSource(i)

\* The same for the constructions that ran process(), and for those that
\* loaded an entry no vocabulary of another text source had written
C24_VocabularyOfTheSourceOwnEntry ==
    \A i \in 1..Len(voc) :
        (/\ VocabBuilt(i)
         /\ \A j \in 1..(i - 1) :
               voc[j].identity = voc[i].identity => voc[j].self = voc[i].self)
            => VocabularyOfItsSource(i)

\* A vocabulary was loaded from the entry its own earlier construction had
\* written, with a word below unk_thres left out and upper case merged
C24_WitnessOwnEntry ==
    \E i \in 1..Len(voc) :
        /\ VocabBuilt(i)
        /\ voc[i].calls = <<"from_cache">>
        /\ \A j \in 1..(i - 1) : voc[j].self = voc[i].self
        /\ voc[i].self.lower_case.b
        /\ voc[i].self.unk_thres.n = 2
        /\ voc[i].bound["_id2word"] = <<"[PAD]", "[UNK]", "love">>

----------------------------------------------------------------------------
(* src/Gat/neural/models.py and src/models.py: GATLayered.  A layer is the
   record of its class and of the arguments its constructor was given; the
   forward pass is followed one layer at a time. *)

\* The largest config.nmid_layers
MaxMidLayers == 4

\* GATLayerWrapper(config, do_residual=..., concat=...); concat is "default"
\* when the call does not give it
GATLayerWrapper(do_residual, concat) ==
    [cls |-> "GATLayerWrapper", do_residual |-> do_residual, concat |-> concat]

\* FeedForwardWrapper(config, do_residual=...)
FeedForwardWrapper(do_residual) ==
    [cls |-> "FeedForwardWrapper", do_residual |-> do_residual, concat |-> "none"]

\* EmbeddingWrapper(config, emb_init)
EmbeddingWrapper ==
    [cls |-> "EmbeddingWrapper", do_residual |-> FALSE, concat |-> "none"]

\* GATLayered.__init__ of src/Gat/neural/models.py ("neural") and of
\* src/models.py ("old"), which has no feed-forward sublayers
GATLayered__init__(file, config) ==
    [emb_wrapper |-> EmbeddingWrapper,
     lsmid_layer_wrapper |->
        [i \in 1..config.nmid_layers |-> GATLayerWrapper(config.do_residual, "default")],
     lsfeed_forward_wrapper |->
        IF file = "neural"
        THEN [i \in 1..config.nmid_layers |-> FeedForwardWrapper(config.do_residual)]
        ELSE <<>>,
     last_layer |-> GATLayerWrapper(FALSE, FALSE)]

\* The layers GATLayered.forward applies, in order: the embedding, then for
\* each pair of zip(lsmid_layer_wrapper, lsfeed_forward_wrapper) the
\* attention layer and the feed-forward sublayer ("old": each attention
\* layer), then the last layer
RECURSIVE MidLayers(_, _, _)
MidLayers(file, modules, i) ==
    IF i > Len(modules.lsmid_layer_wrapper) THEN <<>>
    ELSE IF file = "neural"
    THEN (IF i > Len(modules.lsfeed_forward_wrapper) THEN <<>>
          ELSE <<modules.lsmid_layer_wrapper[i], modules.lsfeed_forward_wrapper[i]>>
               \o MidLayers(file, modules, i + 1))
    ELSE <<modules.lsmid_layer_wrapper[i]>> \o MidLayers(file, modules, i + 1)

ForwardOrder(file, modules) ==
    <<modules.emb_wrapper>> \o MidLayers(file, modules, 1) \o <<modules.last_layer>>

NoModules ==
    [emb_wrapper |-> EmbeddingWrapper, lsmid_layer_wrapper |-> <<>>,
     lsfeed_forward_wrapper |-> <<>>, last_layer |-> EmbeddingWrapper]

InitEncoder ==
    /\ batch = <<>>
    /\ undirected = FALSE
    /\ memo = {}
    /\ out = NoResult
    /\ pool = {}
    /\ fs = InitialFs
    /\ log = <<>>
    /\ wk = NoWorkers
    /\ heap = NoHeap
    /\ att = NoAtt
    /\ \E file \in {"neural", "old"}, nmid_layers \in 0..MaxMidLayers,
          do_residual \in BOOLEAN :
          enc = [op      |-> "config",
                 file    |-> file,
                 config  |-> [nmid_layers |-> nmid_layers, do_residual |-> do_residual],
                 modules |-> NoModules,
                 applied |-> <<>>]
    /\ voc = NoVoc
    /\ cfg = NoCfg

\* GATLayered(config, emb_init)
EncBuild ==
    /\ enc.op = "config"
    /\ enc' = [enc EXCEPT !.op = "built",
                          !.modules = GATLayered__init__(enc.file, enc.config)]
    /\ UNCHANGED <<att, voc, cfg>>
    /\ UNCHANGED graphvars
    /\ UNCHANGED cachevars
    /\ UNCHANGED heap

\* The next layer of the forward pass is applied to h
EncApply ==
    /\ enc.op \in {"built", "forward"}
    /\ LET order == ForwardOrder(enc.file, enc.modules)
           n == Len(enc.applied) + 1
       IN  enc' = [enc EXCEPT !.op = IF n = Len(order) THEN "done" ELSE "forward",
                              !.applied = Append(enc.applied, order[n])]
    /\ UNCHANGED <<att, voc, cfg>>
    /\ UNCHANGED graphvars
    /\ UNCHANGED cachevars
    /\ UNCHANGED heap

NextEncoder ==
    \/ EncBuild
    \/ EncApply

SpecEncoder == InitEncoder /\ [][NextEncoder]_vars

----------------------------------------------------------------------------
(* C25: the order of the layers of the encoder and their residual policy *)

\* The places of the attention layers in the finished forward pass
AttentionPlaces ==
    {k \in 1..Len(enc.applied) : enc.applied[k].cls = "GATLayerWrapper"}

FirstAttention == CHOOSE k \in AttentionPlaces : \A m \in AttentionPlaces : k <= m
LastAttention  == CHOOSE k \in AttentionPlaces : \A m \in AttentionPlaces : k >= m

\* C25: in a finished forward pass the attention layers are applied in
\* sequence, each but the last followed by a feed-forward sublayer and the
\* last one ending the pass; the first attention layer has no residual, the
\* ones between the first and the last have the residual policy of the
\* configuration, and the last one does not concatenate its heads.
C25_StackingAndResidualPolicy ==
    enc.op = "done" =>
        /\ AttentionPlaces # {}
        /\ LastAttention = Len(enc.applied)
        /\ \A k \in AttentionPlaces \ {LastAttention} :
              enc.applied[k + 1].cls = "FeedForwardWrapper"
        /\ enc.applied[FirstAttention].do_residual = FALSE
        /\ \A k \in AttentionPlaces \ {FirstAttention, LastAttention} :
              enc.applied[k].do_residual = enc.config.do_residual
        /\ enc.applied[LastAttention].concat = FALSE

\* What the encoder of src/Gat/neural/models.py does: every attention layer
\* but the last has the residual policy of the configuration and is followed
\* by a feed-forward sublayer with that policy; the last has no residual
\* and does not concatenate its heads.
C25_LastLayerWithoutResidual ==
    (enc.op = "done" /\ enc.file = "neural") =>
        /\ LastAttention = Len(enc.applied)
        /\ Cardinality(AttentionPlaces) = enc.config.nmid_layers + 1
        /\ \A k \in AttentionPlaces \ {LastAttention} :
              /\ enc.applied[k].do_residual = enc.config.do_residual
              /\ enc.applied[k + 1] = FeedForwardWrapper(enc.config.do_residual)
        /\ enc.applied[LastAttention] = GATLayerWrapper(FALSE, FALSE)

C25_WitnessLastLayer ==
    /\ enc.op = "done"
    /\ enc.file = "neural"
    /\ enc.config.do_residual
    /\ enc.config.nmid_layers >= 2

----------------------------------------------------------------------------
(* C26: the coalesced batch is made of one block per graph *)

\* The calls that return a coalesced batch
BatchOps == Coalescers \cup ClsBatchOps

\* Every edge of every graph joins nodes of that graph
WellFormed(ls) ==
    \A i \in 1..Len(ls) : \A j \in 1..Len(ls[i].lsedge) :
        /\ ls[i].lsedge[j][1] \in Nodes(Len(ls[i].nodeid2wordid))
        /\ ls[i].lsedge[j][2] \in Nodes(Len(ls[i].nodeid2wordid))

\* Where the block of graph i starts and how many nodes it has, for a call
\* without and with the [CLS] node
BlockStart(op, ls, i) == IF op \in ClsBatchOps THEN ClsOffset(ls, i) ELSE Offset(ls, i)
BlockSize(op, ls, i) ==
    Len(ls[i].nodeid2wordid) + (IF op \in ClsBatchOps THEN 1 ELSE 0)

InBlock(op, ls, i, node) ==
    BlockStart(op, ls, i) <= node /\ node < BlockStart(op, ls, i) + BlockSize(op, ls, i)

\* The edges of graph i in its own numbering, with the edges to its [CLS]
\* node for a call that adds it
OwnEdges(op, ls, i) ==
    SeqRange(ls[i].lsedge)
    \cup (IF op \in ClsBatchOps
          THEN {<<ls[i].lsimp_node[k], Len(ls[i].nodeid2wordid)>> :
                    k \in 1..Len(ls[i].lsimp_node)}
          ELSE {})

\* C26: for a batch of well-formed graphs, directed or undirected, with or
\* without the [CLS] nodes, every coalesced edge has both endpoints in the
\* block of one graph, where it is an edge of that graph or the reverse of
\* one; no edge joins two blocks and every endpoint is below the number of
\* nodes of the batch.
C26_BlockStructure ==
    (out.op \in BatchOps /\ out.status = "ok" /\ WellFormed(batch)) =>
        \A k \in 1..Len(out.lsedge) :
            /\ out.lsedge[k][1] \in Nodes(Len(out.nodeid2wordid))
            /\ out.lsedge[k][2] \in Nodes(Len(out.nodeid2wordid))
            /\ \E i \in 1..Len(batch) :
                  LET local == <<out.lsedge[k][1] - BlockStart(out.op, batch, i),
                                 out.lsedge[k][2] - BlockStart(out.op, batch, i)>>
                  IN  /\ InBlock(out.op, batch, i, out.lsedge[k][1])
                      /\ InBlock(out.op, batch, i, out.lsedge[k][2])
                      /\ local \in OwnEdges(out.op, batch, i)
                         \/ (undirected /\ Rev(local) \in OwnEdges(out.op, batch, i))
            /\ \A i, j \in 1..Len(batch) :
                  (InBlock(out.op, batch, i, out.lsedge[k][1])
                   /\ InBlock(out.op, batch, j, out.lsedge[k][2])) => i = j

\* An undirected batch of two graphs went through prepare_batch: the second
\* graph has an edge of its own and both have edges to their [CLS] nodes
C26_Witness ==
    /\ out.op = "prepare_batch" /\ out.status = "ok"
    /\ undirected
    /\ Len(batch) = 2
    /\ Len(batch[2].lsedge) > 0
    /\ \E k \in 1..Len(out.lsedge) :
          /\ InBlock(out.op, batch, 2, out.lsedge[k][1])
          /\ out.lsedge[k][1] # out.lsedge[k][2]

----------------------------------------------------------------------------
(* C27: what a later construction loads after a to_cache that failed *)

\* Construction i ran process and its to_cache raised at a declared
\* attribute after the first: the attribute was not set (AttributeError) or
\* its method is not a known one (Exception)
StoreFailedPartWay(i) ==
    /\ log[i].calls = <<"process", "to_cache">>
    /\ log[i].exc \in {"AttributeError", "Exception"}
    /\ log[i].at > 1

\* Construction j loaded the cache entry and returned
LoadedAndReturned(j) ==
    /\ ~log[j].ignore_cache
    /\ log[j].calls = <<"from_cache">>
    /\ log[j].exc = "none"

\* Some of the values construction j bound were computed by run i, others
\* are older
MixesRunWithOlder(j, i) ==
    /\ \E a \in DOMAIN log[j].bound : log[j].bound[a] = i
    /\ \E b \in DOMAIN log[j].bound : log[j].bound[b] < i

\* C27: after a construction whose to_cache failed part-way, with or without
\* ignore_cache and a complete older entry, no later construction without
\* ignore_cache on the same cache entry loads values of which some come from
\* the failed run and others from an older one.  The entry holds only what
\* constructions have written.
C27_NoPartialCacheAfterFailure ==
    \A i \in 1..Len(log), j \in 1..Len(log) :
        ( /\ i < j
          /\ SameEntry(i, j)
          /\ StartedEmpty(j)
          /\ StoreFailedPartWay(i)
          /\ LoadedAndReturned(j) )
        => ~MixesRunWithOlder(j, i)

\* When the failed construction found no complete entry, a later one
\* without ignore_cache does not load the entry: it runs process again
C27_NoLoadAfterFailureOnEmptyEntry ==
    \A i \in 1..Len(log), j \in 1..Len(log) :
        ( /\ NextOnEntry(i, j)
          /\ StoreFailedPartWay(i)
          /\ ~log[i].existed
          /\ ~log[j].ignore_cache )
        => (log[j].calls # <<>> /\ log[j].calls[1] = "process")

C27_WitnessEmptyEntry ==
    \E i \in 1..Len(log), j \in 1..Len(log) :
        /\ NextOnEntry(i, j)
        /\ StoreFailedPartWay(i)
        /\ ~log[i].existed
        /\ ~log[j].ignore_cache
        /\ log[j].exc = "none"

----------------------------------------------------------------------------
(* Symmetrization and coalescing *)

\* src/data.py: SentenceGraphDataset.batch_to_undirected
batch_to_undirected(lslsedge_index) ==
    [i \in 1..Len(lslsedge_index) |-> to_undirected(lslsedge_index[i])]

\* The batch whose graphs went, one by one, through the loop of the
\* undirected branch before they are coalesced
SymmetrizedSeparately(ls) ==
    [i \in 1..Len(ls) |->
        [ls[i] EXCEPT !.lsedge = MakeUndirected(ls[i].lsedge, ls[i].lsedge_type).new_lsedge,
                      !.lsedge_type =
                          MakeUndirected(ls[i].lsedge, ls[i].lsedge_type).new_lsedge_type]]

\* The batch whose edge lists went through batch_to_undirected; to_undirected
\* carries no edge types, so only the edges are kept
SymmetrizedByDataset(ls) ==
    LET lsls == batch_to_undirected([i \in 1..Len(ls) |-> ls[i].lsedge])
    IN  [i \in 1..Len(ls) |->
            [ls[i] EXCEPT !.lsedge = lsls[i],
                          !.lsedge_type = [k \in 1..Len(lsls[i]) |-> 0]]]

EdgeSet(lsedge) == {lsedge[i] : i \in 1..Len(lsedge)}

\* C28: symmetrization commutes with coalescing. For every batch of
\* well-formed graphs, the edges and edge types _coalesce_graph returns in
\* undirected mode (the coalesced list, symmetrized) are, position by
\* position, the edges and edge types of coalescing the graphs after each went
\* through the same symmetrization on its own; edges of different graphs are
\* never merged or dropped. The edges are also, as a set, those of coalescing
\* the output of batch_to_undirected.
C28_SymmetrizationCommutesWithCoalescing ==
    (out.op = "_coalesce_graph" /\ out.status = "ok" /\ undirected) =>
        LET separately == _coalesce_graph(SymmetrizedSeparately(batch), FALSE)
            dataset    == _coalesce_graph(SymmetrizedByDataset(batch), FALSE)
        IN  /\ out.lsedge = separately.lsedge
            /\ out.lsedge_type = separately.lsedge_type
            /\ EdgeSet(out.lsedge) = EdgeSet(dataset.lsedge)

\* Two graphs whose first edges carry the same local ids were coalesced in
\* undirected mode: without the translation the second one would be a
\* duplicate of the first.
C28_Witness ==
    /\ out.op = "_coalesce_graph" /\ out.status = "ok" /\ undirected
    /\ Len(batch) = 2
    /\ Len(batch[1].lsedge) > 0 /\ Len(batch[2].lsedge) > 0
    /\ SortedEdge(batch[1].lsedge[1]) = SortedEdge(batch[2].lsedge[1])
    /\ Len(out.lsedge) = 4

----------------------------------------------------------------------------
(* C29: the adjacency mask prepare_batch builds after the [CLS] nodes are added *)

PreparedBatch == out.op = "prepare_batch" /\ out.status = "ok"

\* The key nodes of graph i in the numbering of the coalesced batch
OriginalKeyNodes(ls, i) ==
    {ls[i].lsimp_node[k] + ClsOffset(ls, i) : k \in 1..Len(ls[i].lsimp_node)}

\* C29: in the mask prepare_batch returns, mask[i][j] is 1 exactly when (i, j)
\* is an edge of the coalesced list; in directed mode the column of the [CLS]
\* node of a graph holds 1 exactly at the key nodes the graph had before the
\* [CLS] node was added, and the row of the [CLS] node is all zero.
C29_MaskAfterClsInjection ==
    PreparedBatch =>
        LET N == Len(out.nodeid2wordid)
        IN  /\ DOMAIN out.adj = Nodes(N)
            /\ \A i, j \in Nodes(N) :
                  /\ out.adj[i][j] \in {0, 1}
                  /\ out.adj[i][j] = 1 <=> <<i, j>> \in SeqRange(out.lsedge)
            /\ Len(out.cls_node) = Len(batch)
            /\ ~undirected =>
                  \A g \in 1..Len(batch) :
                      LET c == out.cls_node[g]
                      IN  /\ c = ClsOffset(batch, g) + Len(batch[g].nodeid2wordid)
                          /\ \A k \in Nodes(N) :
                                out.adj[k][c] = 1 <=> k \in OriginalKeyNodes(batch, g)
                          /\ \A j \in Nodes(N) : out.adj[c][j] = 0

\* A directed batch of two graphs went through prepare_batch; the second has
\* an edge of its own that leaves its key node
C29_Witness ==
    /\ PreparedBatch /\ ~undirected
    /\ Len(batch) = 2
    /\ \E e \in 1..Len(batch[2].lsedge) : batch[2].lsedge[e][1] = batch[2].lsimp_node[1]
    /\ out.adj[out.cls_node[1] + 1 + batch[2].lsimp_node[1]][out.cls_node[2]] = 1

----------------------------------------------------------------------------
(* src/Gat/config/base.py: the configuration objects.  An object is its
   __dict__, a function from attribute names to values; a config held by
   another config is held by reference. *)

PyNone == [py |-> "NoneType"]

PyStr(s) == [py |-> "str", s |-> s]

\* A reference to one of the configuration objects
PyRef(id) == [py |-> "ref", id |-> id]

\* The objects in play, one of each class
ConfigIds == {"trainer", "preprop", "model", "everything"}

ClassOf(id) ==
    CASE id = "trainer"    -> "TrainerConfig"
      [] id = "preprop"    -> "PreprocessingConfig"
      [] id = "model"      -> "GATForSequenceClassificationConfig"
      [] id = "everything" -> "EverythingConfig"

\* An object that was not constructed, or whose constructor raised
NoObject == [absent |-> TRUE]

Made(objects, id) == "absent" \notin DOMAIN objects[id]

\* inspect.signature(self.__class__.__init__).parameters.keys(): the function
\* is taken from the class, so its first parameter, self, is among them
InitParamNames(class) ==
    CASE class = "TrainerConfig" ->
            {"self", "lr", "epochs", "train_batch_size", "eval_batch_size", "use_cuda",
             "early_stop_patience", "do_eval_every_epoch", "do_eval_on_truncated_train_set"}
      [] class = "PreprocessingConfig" ->
            {"self", "undirected", "dataset_dir", "sent2graph_name", "unk_thres"}
      [] class = "GATForSequenceClassificationConfig" ->
            {"self", "gat_layered", "embedding_dim", "node_embedding_type",
             "use_pretrained_embs", "use_edge_features", "dataset_dep", "bpe_vocab_size"}
      [] class = "EverythingConfig" ->
            {"self", "trainer", "preprop", "model"}

\* bool(v) for the values in play
Truthy(v) ==
    CASE v.py = "bool"     -> v.b
      [] v.py = "int"      -> v.n # 0
      [] v.py = "str"      -> v.s # ""
      [] v.py = "NoneType" -> FALSE
      [] OTHER             -> TRUE

\* GATForSequenceClassificationConfig._validate: TRUE when no assertion fails
GATForSequenceClassificationConfig__validate(self) ==
    /\ self.node_embedding_type = PyStr("pooled_bert") => Truthy(self.use_pretrained_embs)
    /\ IF self.node_embedding_type = PyStr("bpe")
       THEN self.bpe_vocab_size # PyNone
       ELSE self.bpe_vocab_size = PyNone

\* EverythingConfig._validate: self.model and self.preprop are followed to the
\* objects they refer to
EverythingConfig__validate(objects, self) ==
    objects[self.model.id].node_embedding_type \in {PyStr("pooled_bert"), PyStr("bpe")}
        => objects[self.preprop.id].unk_thres = PyNone

\* self._validate() on the object with this __dict__; the other classes keep
\* Config._validate, which passes
_validate(objects, class, self) ==
    CASE class = "GATForSequenceClassificationConfig" ->
            GATForSequenceClassificationConfig__validate(self)
      [] class = "EverythingConfig" -> EverythingConfig__validate(objects, self)
      [] OTHER -> TRUE

\* d[n] = v on a __dict__
SetItem(d, n, v) == IF n \in DOMAIN d THEN [d EXCEPT ![n] = v] ELSE (n :> v) @@ d

\* Config.__setattr__(self, n, v), self being objects[id]: the name is
\* checked, the value is stored, and then, once __init__ has run, the object
\* the assignment is made on is validated.
Config__setattr__(objects, id, n, v) ==
    IF n \notin InitParamNames(ClassOf(id)) /\ n # "_did__init__"
    THEN [objects |-> objects, status |-> "Exception"]
    ELSE LET stored == [objects EXCEPT ![id] = SetItem(objects[id], n, v)]
         IN  IF "_did__init__" \in DOMAIN stored[id]
                /\ ~_validate(stored, ClassOf(id), stored[id])
             THEN [objects |-> stored, status |-> "AssertionError"]
             ELSE [objects |-> stored, status |-> "ok"]

\* The constructor of a class: the attributes are assigned while _did__init__
\* is not set, so nothing is validated; Config.__init__ then sets
\* _did__init__, which validates, and validates once more.  When it raises
\* the caller gets no object.
Config__init__(objects, id, attrs) ==
    LET self  == SetItem(attrs, "_did__init__", PyBool(TRUE))
        built == [objects EXCEPT ![id] = self]
    IN  IF _validate(built, ClassOf(id), self)
        THEN [objects |-> built, status |-> "ok"]
        ELSE [objects |-> objects, status |-> "AssertionError"]

\* The attributes the constructors assign.  Of the attributes no _validate
\* reads, one is kept for each class that has no other.
TrainerConfig(epochs) == [epochs |-> epochs]

PreprocessingConfig(unk_thres) == [unk_thres |-> unk_thres]

GATForSequenceClassificationConfig(node_embedding_type, use_pretrained_embs, bpe_vocab_size) ==
    [node_embedding_type |-> node_embedding_type,
     use_pretrained_embs |-> use_pretrained_embs,
     bpe_vocab_size      |-> bpe_vocab_size]

EverythingConfig(trainer, preprop, model) ==
    [trainer |-> trainer, preprop |-> preprop, model |-> model]

NodeEmbeddingTypes == {PyStr("pooled_bert"), PyStr("basic"), PyStr("bpe")}

BpeVocabSizes == {PyNone, PyInt(25000)}

UnkThres == {PyNone, PyInt(1)}

PyBools == {PyBool(TRUE), PyBool(FALSE)}

\* The arguments the constructors are called with
ConstructorCalls ==
    {[id |-> "trainer", attrs |-> TrainerConfig(PyInt(4))]}
    \cup {[id |-> "preprop", attrs |-> PreprocessingConfig(u)] : u \in UnkThres}
    \cup {[id |-> "model", attrs |-> GATForSequenceClassificationConfig(t, p, b)] :
              t \in NodeEmbeddingTypes, p \in PyBools, b \in BpeVocabSizes}
    \cup {[id |-> "everything",
           attrs |-> EverythingConfig(PyRef("trainer"), PyRef("preprop"), PyRef("model"))]}

\* The assignments made: attributes of the class with the values they take,
\* the name self, and a name that belongs to another class
Assignments ==
    {[id |-> "model", n |-> "node_embedding_type", v |-> t] : t \in NodeEmbeddingTypes}
    \cup {[id |-> "model", n |-> "use_pretrained_embs", v |-> p] : p \in PyBools}
    \cup {[id |-> "model", n |-> "bpe_vocab_size", v |-> b] : b \in BpeVocabSizes}
    \cup {[id |-> "model", n |-> "unk_thres", v |-> PyNone]}
    \cup {[id |-> "preprop", n |-> "unk_thres", v |-> u] : u \in UnkThres}
    \cup {[id |-> "preprop", n |-> "lr", v |-> PyInt(1)]}
    \cup {[id |-> "trainer", n |-> "epochs", v |-> PyInt(5)]}
    \cup {[id |-> "trainer", n |-> "self", v |-> PyInt(5)]}
    \cup {[id |-> "everything", n |-> "model", v |-> PyRef("model")]}
    \cup {[id |-> "everything", n |-> "unk_thres", v |-> PyNone]}

\* Fields of cfg: objects, the objects by id; op, the last call; status, "ok"
\* or the exception it raised; id, n, v, the object, the name and the value of
\* the call; before, the objects as they were before it.
InitConfig ==
    /\ cfg = [objects |-> [id \in ConfigIds |-> NoObject], op |-> "none",
              status |-> "none", id |-> "", n |-> "", v |-> PyNone,
              before |-> [id \in ConfigIds |-> NoObject]]
    /\ batch = <<>>
    /\ undirected = FALSE
    /\ memo = {}
    /\ out = NoResult
    /\ pool = {}
    /\ fs = InitialFs
    /\ log = <<>>
    /\ wk = NoWorkers
    /\ heap = NoHeap
    /\ att = NoAtt
    /\ enc = NoEnc
    /\ voc = NoVoc

\* A constructor call; an EverythingConfig is made of objects that exist
ConfigConstruct ==
    /\ \E c \in ConstructorCalls :
          /\ ~Made(cfg.objects, c.id)
          /\ c.id = "everything" =>
                \A part \in {"trainer", "preprop", "model"} : Made(cfg.objects, part)
          /\ LET r == Config__init__(cfg.objects, c.id, c.attrs)
             IN  cfg' = [objects |-> r.objects, op |-> "__init__", status |-> r.status,
                         id |-> c.id, n |-> "", v |-> PyNone, before |-> cfg.objects]
    /\ UNCHANGED graphvars
    /\ UNCHANGED cachevars
    /\ UNCHANGED <<heap, att, enc, voc>>

\* An assignment on an object, reached directly or through the config holding it
ConfigAssign ==
    /\ \E a \in Assignments :
          /\ Made(cfg.objects, a.id)
          /\ LET r == Config__setattr__(cfg.objects, a.id, a.n, a.v)
             IN  cfg' = [objects |-> r.objects, op |-> "__setattr__", status |-> r.status,
                         id |-> a.id, n |-> a.n, v |-> a.v, before |-> cfg.objects]
    /\ UNCHANGED graphvars
    /\ UNCHANGED cachevars
    /\ UNCHANGED <<heap, att, enc, voc>>

NextConfig ==
    \/ ConfigConstruct
    \/ ConfigAssign

SpecConfig == InitConfig /\ [][NextConfig]_vars

----------------------------------------------------------------------------
(* C30: validity of the configuration objects *)

Valid(objects, id) == Made(objects, id) => _validate(objects, ClassOf(id), objects[id])

Assigned == cfg.op = "__setattr__"

\* C30: after construction and after every assignment on a config or on a
\* config nested inside it, whether it succeeded or raised, every config
\* object satisfies its own _validate(); an assignment that raises, for the
\* name or for the validation, leaves the object as it was.
C30_ConfigValidity ==
    /\ \A id \in ConfigIds : Valid(cfg.objects, id)
    /\ (Assigned /\ cfg.status # "ok") => cfg.objects[cfg.id] = cfg.before[cfg.id]

\* What the code does keep: a call that returned leaves the object it was
\* made on valid, and an assignment under a name that is no __init__
\* parameter raises Exception and changes nothing.
C30_TargetValidAndUnknownNameRejected ==
    /\ (cfg.op # "none" /\ cfg.status = "ok") => Valid(cfg.objects, cfg.id)
    /\ (Assigned /\ cfg.n \notin InitParamNames(ClassOf(cfg.id))) =>
          cfg.status = "Exception" /\ cfg.objects = cfg.before
    /\ (Assigned /\ cfg.status = "Exception") => cfg.n \notin InitParamNames(ClassOf(cfg.id))

\* An assignment under a name of another class was rejected on an
\* EverythingConfig, after one on the model it holds had succeeded
C30_WitnessRejectedName ==
    /\ Assigned /\ cfg.status = "Exception"
    /\ cfg.id = "everything"
    /\ cfg.objects["model"] # GATForSequenceClassificationConfig(
                                  PyStr("basic"), PyBool(TRUE), PyNone)
    /\ Made(cfg.objects, "model")

====
